---------------------------- MODULE Spec2Model ----------------------------
(***************************************************************************)
(* Sudoku engine of src/web/sudoku.js (the bitmask + MRV build, lines      *)
(* 1059..2635): board topology, constraint masks, the backtracking search  *)
(* core in its three modes, the full-grid generator, the clue carver, the  *)
(* difficulty retry loop, the maps cache, and the handlers of the page     *)
(* that change the game state object.                                      *)
(*                                                                         *)
(* Representation.  A grid is a function from the cell indices 0..N*N-1 to *)
(* 0..N (0 = empty), as the flat arrays of the code.  A bit mask is the    *)
(* set of the digits whose bit is set (bit v-1 <-> digit v): `|` is union, *)
(* `& ~b` is set difference, `^` is symmetric difference, popcount is the  *)
(* cardinality.  An Int16Array of length N is a function on 0..N-1: a      *)
(* write outside its range is dropped and a read outside its range yields  *)
(* undefined, which `|` treats as 0.                                       *)
(*                                                                         *)
(* Randomness.  shuffled(arr) returns some permutation of arr.  Inside the *)
(* searches the permutation is consumed front to back, so the model draws  *)
(* the next candidate among the digits not tried yet, at most `width` of   *)
(* them (the smallest ones); width >= N covers every permutation.          *)
(***************************************************************************)
EXTENDS Integers, Sequences, FiniteSets, TLC

VARIABLES
    N, B,          \* the (N, B) arguments of the call under study
    pc,            \* position of the call under study
    p,             \* solver specification: the puzzle argument
    blanks,        \* solver specification: number of empty cells of p
    edits,         \* solver specification: cells overwritten while building p
    fn,            \* solver specification: the public function that was called
    res,           \* solver specification: the value it returned
    entry,         \* generator specification: the public function that was called
    diff,          \* generatePuzzleForDifficulty: the diff argument
    now,           \* the last value nowMs() returned
    deadline,      \* generatePuzzleForDifficulty: deadline
    attempt,       \* generatePuzzleForDifficulty: attempt (loop variable)
    best,          \* generatePuzzleForDifficulty: best (NoBest for null)
    sol,           \* sol of the running generatePuzzle / attempt
    puzzle,        \* puzzle of the running generatePuzzle / attempt
    clues,         \* clues of the running generatePuzzle / attempt
    idxs,          \* idxs / order / order2: the shuffled cell order being walked
    t,             \* position in order of the next iteration (1-based)
    singles,       \* singles.solved of the attempt's step 4 (FALSE before it)
    metrics,       \* metrics.nodes of the attempt's step 4 (-1 before it)
    started,       \* history: the clock value each started attempt saw
    tried,         \* history: the attempts the loop rejected, in order
    ret,           \* the {puzzle, solution} pair returned (NoPair before)
    path,          \* history: the return statement that produced ret
    run,           \* search specification: g, masks, solutions, nodes, solvedOnce
    stack,         \* search specification: the activations of bt inside their loop
    retval,        \* search specification: the value the last bt() returned
    MAPS,          \* the module-level cache of buildIndexMaps (NoMaps for null)
    heap,          \* calls specification: the arrays alive, by reference
    state,         \* the game state object of the page
    log,           \* history of the page: events handled, views saved for undo
    isBuilding,    \* the build guard of the page
    buildToken,    \* the number of the last build of the table
    frames,        \* the tokens of the pending requestAnimationFrame callbacks
    timers         \* the number of pending setTimeout(0) callbacks of newGame

solveVars == <<p, blanks, edits, fn, res>>
genVars == <<entry, diff, now, deadline, attempt, best, sol, puzzle, clues, idxs, t,
             singles, metrics, started, tried, ret, path>>
searchVars == <<run, stack, retval>>
callVars == <<MAPS, heap>>
buildVars == <<isBuilding, buildToken, frames, timers>>
uiVars == <<state, log, isBuilding, buildToken, frames, timers>>
vars == <<N, B, pc, p, blanks, edits, fn, res, entry, diff, now, deadline, attempt, best,
          sol, puzzle, clues, idxs, t, singles, metrics, started, tried, ret, path,
          run, stack, retval, MAPS, heap, state, log,
          isBuilding, buildToken, frames, timers>>

-----------------------------------------------------------------------------
(* Bounds of the model *)

\* empty cells up to which the solver's inputs are blanked further
MaxBlanks == 4
\* a cell overwritten with another digit is one of the first EditSpan cells
EditSpan == 1

-----------------------------------------------------------------------------
(* Board topology: buildIndexMaps *)

Cells(n) == 0 .. (n * n - 1)
Digits(n) == 1 .. n

ROW_OF(i, n) == i \div n
COL_OF(i, n) == i % n
\* BOX_OF without the scaling of the box row
BOX_OF_NoScale(i, n, b) == (ROW_OF(i, n) \div b) + (COL_OF(i, n) \div b)
BOX_OF(i, n, b) == (ROW_OF(i, n) \div b) * b + (COL_OF(i, n) \div b)

FULL_MASK(n) == Digits(n)
bit(v) == {v}
popcount(m) == Cardinality(m)
maskToDigits(m, n) == {v \in Digits(n) : bit(v) \cap m # {}}

\* a ^ b on masks
BitXor(a, b) == (a \ b) \cup (b \ a)

buildIndexMaps(n, b) == [N |-> n, B |-> b]

-----------------------------------------------------------------------------
(* Constraint masks: computeMasks, candidateMask, assign, unassign *)

\* masks.xs[k] |= m on an Int16Array of length M.N: dropped when k is out of range
OrInto(xs, k, m) == IF k \in DOMAIN xs THEN [xs EXCEPT ![k] = @ \cup m] ELSE xs
\* masks.xs[k] &= ~m
ClearIn(xs, k, m) == IF k \in DOMAIN xs THEN [xs EXCEPT ![k] = @ \ m] ELSE xs
\* masks.xs[k] read as an operand of `|`
ReadMask(xs, k) == IF k \in DOMAIN xs THEN xs[k] ELSE {}

computeMasks(g, M) ==
    [rows  |-> [r \in 0 .. (M.N - 1) |->
                  UNION {bit(g[i]) : i \in {j \in DOMAIN g : g[j] # 0 /\ ROW_OF(j, M.N) = r}}],
     cols  |-> [c \in 0 .. (M.N - 1) |->
                  UNION {bit(g[i]) : i \in {j \in DOMAIN g : g[j] # 0 /\ COL_OF(j, M.N) = c}}],
     boxes |-> [b \in 0 .. (M.N - 1) |->
                  UNION {bit(g[i]) : i \in {j \in DOMAIN g : g[j] # 0 /\ BOX_OF(j, M.N, M.B) = b}}]]

\* candidateMask that leaves the box mask out
candidateMask_NoBox(i, masks, M) ==
    LET used == ReadMask(masks.rows, ROW_OF(i, M.N))
                \cup ReadMask(masks.cols, COL_OF(i, M.N))
    IN  BitXor(FULL_MASK(M.N), used)

candidateMask(i, masks, M) ==
    LET used == ReadMask(masks.rows, ROW_OF(i, M.N))
                \cup ReadMask(masks.cols, COL_OF(i, M.N))
                \cup ReadMask(masks.boxes, BOX_OF(i, M.N, M.B))
    IN  BitXor(FULL_MASK(M.N), used)

-----------------------------------------------------------------------------
(* Solver: solveBacktrackingCore.  The closure's mutable state (g, masks,   *)
(* solutions, nodes, solvedOnce) is the record st; the call's constants (M, *)
(* empties, countOnly, maxSolutions) are the record ctx.  solvedOnce is the *)
(* set {} for null and {grid} otherwise.  bt(st, ctx) is the set of the     *)
(* outcomes [ret, st] that some order of the shuffled candidates produces.  *)

\* let bestCount = 1e9
BigCount == 1000000000

\* empties: the initially empty cells in scan order
EmptiesOf(g) ==
    LET RECURSIVE Scan(_)
        Scan(i) == IF i \notin DOMAIN g THEN <<>>
                   ELSE IF g[i] = 0 THEN <<i>> \o Scan(i + 1) ELSE Scan(i + 1)
    IN  Scan(0)

RECURSIVE ScanMRV(_, _, _, _, _)
\* the for loop of selectMRV from position k on (k is 1-based in empties)
ScanMRV(k, bestIdx, bestCount, st, ctx) ==
    IF k > Len(ctx.empties)
    THEN LET cm == IF bestIdx >= 0 THEN candidateMask(bestIdx, st.masks, ctx.M) ELSE {}
         IN  [i |-> bestIdx, cm |-> cm, cnt |-> IF bestIdx >= 0 THEN popcount(cm) ELSE 0]
    ELSE LET i == ctx.empties[k] IN
         IF st.g[i] # 0 THEN ScanMRV(k + 1, bestIdx, bestCount, st, ctx)
         ELSE LET cm  == candidateMask(i, st.masks, ctx.M)
                  cnt == popcount(cm)
              IN  IF cnt = 0 THEN [i |-> i, cm |-> cm, cnt |-> 0]
                  ELSE IF cnt < bestCount
                       THEN IF cnt = 1
                            THEN ScanMRV(Len(ctx.empties) + 1, i, cnt, st, ctx)
                            ELSE ScanMRV(k + 1, i, cnt, st, ctx)
                       ELSE IF bestCount = 1
                            THEN ScanMRV(Len(ctx.empties) + 1, bestIdx, bestCount, st, ctx)
                            ELSE ScanMRV(k + 1, bestIdx, bestCount, st, ctx)

selectMRV(st, ctx) == ScanMRV(1, -1, BigCount, st, ctx)

\* assign that leaves the box mask alone
assign_NoBox(st, i, v, M) ==
    [st EXCEPT !.g[i] = v,
               !.masks.rows  = OrInto(@, ROW_OF(i, M.N), bit(v)),
               !.masks.cols  = OrInto(@, COL_OF(i, M.N), bit(v))]

assign(st, i, v, M) ==
    [st EXCEPT !.g[i] = v,
               !.masks.rows  = OrInto(@, ROW_OF(i, M.N), bit(v)),
               !.masks.cols  = OrInto(@, COL_OF(i, M.N), bit(v)),
               !.masks.boxes = OrInto(@, BOX_OF(i, M.N, M.B), bit(v))]

\* unassign that leaves the column mask alone
unassign_NoCol(st, i, v, M) ==
    [st EXCEPT !.g[i] = 0,
               !.masks.rows  = ClearIn(@, ROW_OF(i, M.N), bit(v)),
               !.masks.boxes = ClearIn(@, BOX_OF(i, M.N, M.B), bit(v))]

\* unassign that clears the masks and leaves the digit in the cell
unassign_KeepCell(st, i, v, M) ==
    [st EXCEPT !.masks.rows  = ClearIn(@, ROW_OF(i, M.N), bit(v)),
               !.masks.cols  = ClearIn(@, COL_OF(i, M.N), bit(v)),
               !.masks.boxes = ClearIn(@, BOX_OF(i, M.N, M.B), bit(v))]

unassign(st, i, v, M) ==
    [st EXCEPT !.g[i] = 0,
               !.masks.rows  = ClearIn(@, ROW_OF(i, M.N), bit(v)),
               !.masks.cols  = ClearIn(@, COL_OF(i, M.N), bit(v)),
               !.masks.boxes = ClearIn(@, BOX_OF(i, M.N, M.B), bit(v))]

\* the digits shuffled(...) may put next: the `width` smallest of those not tried yet
NextOf(untried, width) ==
    {v \in untried : Cardinality({u \in untried : u < v}) < width}

\* btCompleted with the early exit taken at the first solution in every mode
btCompleted_FirstExit(st, ctx) ==
    LET s1 == st.solutions + 1 IN
    [ret |-> TRUE,
     st  |-> [st EXCEPT !.solutions = s1,
                        !.solvedOnce = IF ~ctx.countOnly /\ @ = {} THEN {st.g} ELSE @]]

\* btCompleted without the cutoff of the counting mode
btCompleted_NoCutoff(st, ctx) ==
    LET s1 == st.solutions + 1 IN
    [ret |-> ~ctx.countOnly,
     st  |-> [st EXCEPT !.solutions = s1,
                        !.solvedOnce = IF ~ctx.countOnly /\ @ = {} THEN {st.g} ELSE @]]

\* if (g.every(Boolean)) { solutions++; ...; return ... }
btCompleted(st, ctx) ==
    LET s1 == st.solutions + 1 IN
    [ret |-> (ctx.countOnly /\ s1 >= ctx.maxSolutions) \/ ~ctx.countOnly,
     st  |-> [st EXCEPT !.solutions = s1,
                        !.solvedOnce = IF ~ctx.countOnly /\ @ = {} THEN {st.g} ELSE @]]

RECURSIVE bt(_, _)
RECURSIVE btLoop(_, _, _, _)

\* for (k ...) { assign; nodes++; if (bt()) return true; unassign } return false
btLoop(st, i, untried, ctx) ==
    IF untried = {} THEN {[ret |-> FALSE, st |-> st]}
    ELSE UNION {
           UNION { IF r.ret THEN {r}
                   ELSE btLoop(unassign(r.st, i, v, ctx.M), i, untried \ {v}, ctx)
                   : r \in bt([assign(st, i, v, ctx.M) EXCEPT !.nodes = @ + 1], ctx) }
           : v \in NextOf(untried, ctx.width) }

bt(st, ctx) ==
    IF \A i \in DOMAIN st.g : st.g[i] # 0
    THEN {btCompleted(st, ctx)}
    ELSE LET pick == selectMRV(st, ctx) IN
         IF pick.i = -1 \/ pick.cnt = 0
         THEN {[ret |-> FALSE, st |-> st]}
         ELSE btLoop(st, pick.i, maskToDigits(pick.cm, ctx.M.N), ctx)

\* the results solveBacktrackingCore(puzzle, N, B, opts) can return
solveBacktrackingCore(q, n, b, opts, width) ==
    LET M   == buildIndexMaps(n, b)
        ctx == [M |-> M, empties |-> EmptiesOf(q), countOnly |-> opts.countOnly,
                maxSolutions |-> opts.maxSolutions, width |-> width]
        st0 == [g |-> q, masks |-> computeMasks(q, M),
                solutions |-> 0, nodes |-> 0, solvedOnce |-> {}]
    IN  { [solved         |-> r.st.solutions > 0,
           solution       |-> r.st.solvedOnce,
           solutionsCount |-> r.st.solutions,
           nodes          |-> IF opts.wantMetrics THEN r.st.nodes ELSE 0]
          : r \in bt(st0, ctx) }

solveBacktracking(q, n, b, countOnly, width) ==
    { [solved |-> r.solved, solution |-> r.solution, solutionsCount |-> r.solutionsCount]
      : r \in solveBacktrackingCore(q, n, b,
                 [countOnly |-> countOnly, wantMetrics |-> FALSE, maxSolutions |-> 2], width) }

solveBacktrackingWithMetrics(q, n, b, width) ==
    { [solved |-> r.solved, nodes |-> r.nodes, solutionsCount |-> r.solutionsCount]
      : r \in solveBacktrackingCore(q, n, b,
                 [countOnly |-> FALSE, wantMetrics |-> TRUE, maxSolutions |-> 1], width) }

hasUniqueSolution_AlwaysTrue(q, n, b, width) == {TRUE}
hasUniqueSolution(q, n, b, width) ==
    { r.solutionsCount = 1
      : r \in solveBacktrackingCore(q, n, b,
                 [countOnly |-> TRUE, wantMetrics |-> FALSE, maxSolutions |-> 2], width) }

-----------------------------------------------------------------------------
(* Full-grid generator: generateFullSolution.  st is [g, masks]; order is   *)
(* the shuffled fill order, a sequence of the cell indices.                 *)

RECURSIVE genScanMRV(_, _, _, _, _, _, _)
\* the for loop of generateFullSolution.selectMRV from position idx on (1-based)
genScanMRV(idx, bestI, bestCnt, bestMask, st, order, M) ==
    IF idx > Len(order)
    THEN [i |-> bestI, cm |-> bestMask, cnt |-> bestCnt]
    ELSE LET i == order[idx] IN
         IF st.g[i] # 0 THEN genScanMRV(idx + 1, bestI, bestCnt, bestMask, st, order, M)
         ELSE LET cm  == candidateMask(i, st.masks, M)
                  cnt == popcount(cm)
              IN  IF cnt = 0 THEN [i |-> i, cm |-> cm, cnt |-> 0]
                  ELSE IF cnt < bestCnt
                       THEN IF cnt = 1
                            THEN genScanMRV(Len(order) + 1, i, cnt, cm, st, order, M)
                            ELSE genScanMRV(idx + 1, i, cnt, cm, st, order, M)
                       ELSE IF bestCnt = 1
                            THEN genScanMRV(Len(order) + 1, bestI, bestCnt, bestMask, st, order, M)
                            ELSE genScanMRV(idx + 1, bestI, bestCnt, bestMask, st, order, M)

genSelectMRV(st, order, M) == genScanMRV(1, -1, BigCount, {}, st, order, M)

\* assign and unassign of generateFullSolution, on its own g and masks
genAssign(st, i, v, M) ==
    [st EXCEPT !.g[i] = v,
               !.masks.rows  = OrInto(@, ROW_OF(i, M.N), bit(v)),
               !.masks.cols  = OrInto(@, COL_OF(i, M.N), bit(v)),
               !.masks.boxes = OrInto(@, BOX_OF(i, M.N, M.B), bit(v))]

\* unassign that clears the masks and leaves the digit in the cell
genUnassign_KeepCell(st, i, v, M) ==
    [st EXCEPT !.masks.rows  = ClearIn(@, ROW_OF(i, M.N), bit(v)),
               !.masks.cols  = ClearIn(@, COL_OF(i, M.N), bit(v)),
               !.masks.boxes = ClearIn(@, BOX_OF(i, M.N, M.B), bit(v))]

genUnassign(st, i, v, M) ==
    [st EXCEPT !.g[i] = 0,
               !.masks.rows  = ClearIn(@, ROW_OF(i, M.N), bit(v)),
               !.masks.cols  = ClearIn(@, COL_OF(i, M.N), bit(v)),
               !.masks.boxes = ClearIn(@, BOX_OF(i, M.N, M.B), bit(v))]

RECURSIVE genBt(_, _)
RECURSIVE genBtLoop(_, _, _, _)

\* gctx is [M, order, width]
genBtLoop(st, i, untried, gctx) ==
    IF untried = {} THEN {[ret |-> FALSE, st |-> st]}
    ELSE UNION {
           UNION { IF r.ret THEN {r}
                   ELSE genBtLoop(genUnassign(r.st, i, v, gctx.M), i, untried \ {v}, gctx)
                   : r \in genBt(genAssign(st, i, v, gctx.M), gctx) }
           : v \in NextOf(untried, gctx.width) }

genBt(st, gctx) ==
    LET pick == genSelectMRV(st, gctx.order, gctx.M) IN
    IF pick.i = -1 THEN {[ret |-> TRUE, st |-> st]}
    ELSE IF pick.cnt = 0 THEN {[ret |-> FALSE, st |-> st]}
    ELSE genBtLoop(st, pick.i, maskToDigits(pick.cm, gctx.M.N), gctx)

\* const g = Array(N * N).fill(0); const masks = { rows: new Int16Array(N), ... }
genInitial(n) ==
    [g |-> CHOOSE f \in [Cells(n) -> {0}] : TRUE,
     masks |-> LET zero == CHOOSE f \in [0 .. (n - 1) -> {{}}] : TRUE
               IN  [rows |-> zero, cols |-> zero, boxes |-> zero]]

\* the grids generateFullSolution(N, B) can return when its fill order is `order`
generateFullSolution(n, b, order, width) ==
    {r.st.g : r \in genBt(genInitial(n),
                          [M |-> buildIndexMaps(n, b), order |-> order, width |-> width])}

-----------------------------------------------------------------------------
(* Singles solver: candidatesFor, findNakedSingle, findHiddenSingle,        *)
(* solveWithSingles (the Set-based helpers).  NoMove stands for null.       *)

rcToIndex(r, c, n) == r * n + c
rowIndices(i, n) == LET r == i \div n IN {rcToIndex(r, c, n) : c \in 0 .. (n - 1)}
colIndices(i, n) == LET c == i % n IN {rcToIndex(r, c, n) : r \in 0 .. (n - 1)}
boxIndices_FromCell(i, n, b) ==
    LET r  == i \div n
        c  == i % n
        br == r
        bc == (c \div b) * b
    IN  {rcToIndex(br + rr, bc + cc, n) : rr \in 0 .. (b - 1), cc \in 0 .. (b - 1)}

boxIndices(i, n, b) ==
    LET r  == i \div n
        c  == i % n
        br == (r \div b) * b
        bc == (c \div b) * b
    IN  {rcToIndex(br + rr, bc + cc, n) : rr \in 0 .. (b - 1), cc \in 0 .. (b - 1)}

usedInRow(i, g, n) == {g[j] : j \in rowIndices(i, n)} \ {0}
usedInCol(i, g, n) == {g[j] : j \in colIndices(i, n)} \ {0}
usedInBox(i, g, n, b) == {g[j] : j \in boxIndices(i, n, b)} \ {0}
candidatesFor(i, g, n, b) ==
    IF g[i] # 0 THEN {}
    ELSE {v \in 1 .. n : v \notin (usedInRow(i, g, n) \cup usedInCol(i, g, n)
                                      \cup usedInBox(i, g, n, b))}

NoMove == [idx |-> -1, value |-> 0]
MinOf(S) == CHOOSE x \in S : \A y \in S : x <= y

\* a naked-single search that settles for any cell that has a candidate
findNakedSingle_Guess(g, n, b) ==
    LET hits == {i \in DOMAIN g : g[i] = 0 /\ Cardinality(candidatesFor(i, g, n, b)) >= 1}
    IN  IF hits = {} THEN NoMove
        ELSE LET i == MinOf(hits) IN
             [idx |-> i, value |-> CHOOSE v \in candidatesFor(i, g, n, b) : TRUE]

findNakedSingle(g, n, b) ==
    LET hits == {i \in DOMAIN g : g[i] = 0 /\ Cardinality(candidatesFor(i, g, n, b)) = 1}
    IN  IF hits = {} THEN NoMove
        ELSE LET i == MinOf(hits) IN
             [idx |-> i, value |-> CHOOSE v \in candidatesFor(i, g, n, b) : TRUE]

\* pos[v] of one unit: the empty cells of the unit that have v as a candidate
HiddenPos(cells, v, g, n, b) == {i \in cells : g[i] = 0 /\ v \in candidatesFor(i, g, n, b)}

\* the units in the order findHiddenSingle visits them: rows, columns, boxes
HiddenUnits(n, b) ==
    [k \in 1 .. (3 * n) |->
        IF k <= n THEN rowIndices(rcToIndex(k - 1, 0, n), n)
        ELSE IF k <= 2 * n THEN colIndices(rcToIndex(0, k - n - 1, n), n)
        ELSE LET q == k - 2 * n - 1 IN
             boxIndices(rcToIndex((q \div b) * b, (q % b) * b, n), n, b)]

findHiddenSingle(g, n, b) ==
    LET units == HiddenUnits(n, b)
        hits  == {<<k, v>> \in (1 .. (3 * n)) \X (1 .. n) :
                     Cardinality(HiddenPos(units[k], v, g, n, b)) = 1}
    IN  IF hits = {} THEN NoMove
        ELSE LET k == MinOf({h[1] : h \in hits})
                 v == MinOf({h[2] : h \in {x \in hits : x[1] = k}})
             IN  [idx |-> CHOOSE i \in HiddenPos(units[k], v, g, n, b) : TRUE, value |-> v]

RECURSIVE singlesLoop(_, _, _, _)
singlesLoop(g, steps, n, b) ==
    LET naked == findNakedSingle(g, n, b)
        move  == IF naked # NoMove THEN naked ELSE findHiddenSingle(g, n, b)
    IN  IF move = NoMove
        THEN [solved |-> \A i \in DOMAIN g : g[i] # 0, steps |-> steps]
        ELSE singlesLoop([g EXCEPT ![move.idx] = move.value], steps + 1, n, b)

solveWithSingles(original, n, b) == singlesLoop(original, 0, n, b)

-----------------------------------------------------------------------------
(* Reference notions the claims are stated with.  They are defined from    *)
(* the rules of the game, not from the engine above.                       *)

\* a flat array literal as a grid
GridOf(seq) == [i \in 0 .. (Len(seq) - 1) |-> seq[i + 1]]

RowCells(r, n) == {i \in Cells(n) : i \div n = r}
ColCells(c, n) == {i \in Cells(n) : i % n = c}
BoxCells(k, n, b) == {i \in Cells(n) : ((i \div n) \div b) * b + ((i % n) \div b) = k}
Units(n, b) == {RowCells(r, n) : r \in 0 .. (n - 1)}
               \cup {ColCells(c, n) : c \in 0 .. (n - 1)}
               \cup {BoxCells(k, n, b) : k \in 0 .. (n - 1)}

\* two equal non-zero values share a row, column or box
HasConflict(g, n, b) ==
    \E u \in Units(n, b) : \E i, j \in u : i # j /\ g[i] # 0 /\ g[i] = g[j]

\* g is full and every row, column and box holds each digit exactly once
ValidFull(g, n, b) ==
    /\ DOMAIN g = Cells(n)
    /\ \A i \in Cells(n) : g[i] \in Digits(n)
    /\ \A u \in Units(n, b) : {g[i] : i \in u} = Digits(n)

\* every complete valid 4x4 grid, built row by row
Rows4 == {r \in [0 .. 3 -> 1 .. 4] : \A x, y \in 0 .. 3 : x # y => r[x] # r[y]}
BoxOk4(a, c) == /\ {a[0], a[1], c[0], c[1]} = 1 .. 4
                /\ {a[2], a[3], c[2], c[3]} = 1 .. 4
AllFull4 ==
    UNION { UNION { UNION {
      { [i \in 0 .. 15 |-> <<r0, r1, r2, r3>>[(i \div 4) + 1][i % 4]]
        : r3 \in {r \in Rows4 : /\ BoxOk4(r2, r)
                                /\ \A x \in 0 .. 3 : {r0[x], r1[x], r2[x], r[x]} = 1 .. 4} }
      : r2 \in {r \in Rows4 : \A x \in 0 .. 3 : r[x] \notin {r0[x], r1[x]}} }
      : r1 \in {r \in Rows4 : BoxOk4(r0, r)} }
      : r0 \in Rows4 }

\* the valid completions of a 4x4 grid
Completions4(g) == {s \in AllFull4 : \A i \in 0 .. 15 : g[i] # 0 => g[i] = s[i]}

-----------------------------------------------------------------------------
(* Values of the generator's variables while no generator call is running *)

NoGrid == <<>>
NoPair == [puzzle |-> NoGrid, solution |-> NoGrid]
NoBest == [puzzle |-> NoGrid, solution |-> NoGrid, clues |-> -1, nodes |-> -1]

GenIdle ==
    /\ entry = "none" /\ diff = "none"
    /\ now = 0 /\ deadline = 0 /\ attempt = 0 /\ best = NoBest
    /\ sol = NoGrid /\ puzzle = NoGrid /\ clues = 0 /\ idxs = <<>> /\ t = 0
    /\ singles = FALSE /\ metrics = -1
    /\ started = <<>> /\ tried = <<>> /\ ret = NoPair /\ path = "none"

SearchIdle ==
    /\ run = [g |-> NoGrid] /\ stack = <<>> /\ retval = FALSE

\* null, as the value of MAPS
NoMaps == [N |-> 0, B |-> 0]

CallIdle ==
    /\ MAPS = NoMaps /\ heap = <<>>

BuildIdle ==
    /\ isBuilding = FALSE /\ buildToken = 0 /\ frames = <<>> /\ timers = 0

UiIdle ==
    /\ state = [grid |-> NoGrid] /\ log = [events |-> 0]
    /\ BuildIdle

SolveIdle ==
    /\ p = NoGrid /\ blanks = 0 /\ edits = 0 /\ fn = "none" /\ res = [solved |-> FALSE]

-----------------------------------------------------------------------------
(* Solver specification: a puzzle is built from a base grid by blanking    *)
(* and overwriting cells, then one public solver function is applied.      *)

\* the N=4, B=2 fixture and its completion
Fixture == GridOf(<<1,0,0,4, 0,0,1,0, 0,1,0,0, 4,0,0,1>>)
FixtureSolution == GridOf(<<1,2,3,4, 3,4,1,2, 2,1,4,3, 4,3,2,1>>)

\* box sizes the solver is called with on a board of edge n: the matching
\* one and mismatched ones
BoxSizes(n) == IF n = 4 THEN {2, 1} ELSE {0}
ValidTopology(n, b) == n > 0 /\ b * b = n

\* board edges of the solver's inputs
BoardSizes == {4, 0}
BaseGrids(n) == IF n = 4 THEN {FixtureSolution, Fixture} ELSE {[i \in Cells(n) |-> 0]}

InitSolve ==
    /\ N \in BoardSizes
    /\ B = 0
    /\ p \in BaseGrids(N)
    /\ pc = "input"
    /\ blanks = Cardinality({i \in DOMAIN p : p[i] = 0})
    /\ edits = 0
    /\ fn = "none"
    /\ res = [solved |-> FALSE]
    /\ GenIdle
    /\ SearchIdle
    /\ CallIdle /\ UiIdle

Blank(i) ==
    /\ pc = "input" /\ blanks < MaxBlanks
    /\ p[i] # 0
    /\ p' = [p EXCEPT ![i] = 0]
    /\ blanks' = blanks + 1
    /\ UNCHANGED <<N, B, pc, edits, fn, res>>
    /\ UNCHANGED <<genVars, searchVars, callVars, uiVars>>

Overwrite(i, v) ==
    /\ pc = "input" /\ edits = 0 /\ blanks = 0
    /\ i < EditSpan
    /\ p[i] # 0 /\ p[i] # v
    /\ p' = [p EXCEPT ![i] = v]
    /\ edits' = edits + 1
    /\ UNCHANGED <<N, B, pc, blanks, fn, res>>
    /\ UNCHANGED <<genVars, searchVars, callVars, uiVars>>

Call_solveBacktracking(b) ==
    /\ pc = "input"
    /\ \E r \in solveBacktracking(p, N, b, FALSE, N) : res' = r
    /\ fn' = "solveBacktracking"
    /\ B' = b
    /\ pc' = "done"
    /\ UNCHANGED <<N, p, blanks, edits>>
    /\ UNCHANGED <<genVars, searchVars, callVars, uiVars>>

Call_hasUniqueSolution(b) ==
    /\ pc = "input"
    /\ \E r \in hasUniqueSolution(p, N, b, N) : res' = [unique |-> r]
    /\ fn' = "hasUniqueSolution"
    /\ B' = b
    /\ pc' = "done"
    /\ UNCHANGED <<N, p, blanks, edits>>
    /\ UNCHANGED <<genVars, searchVars, callVars, uiVars>>

Call_solveBacktrackingWithMetrics(b) ==
    /\ pc = "input"
    /\ \E r \in solveBacktrackingWithMetrics(p, N, b, N) : res' = r
    /\ fn' = "solveBacktrackingWithMetrics"
    /\ B' = b
    /\ pc' = "done"
    /\ UNCHANGED <<N, p, blanks, edits>>
    /\ UNCHANGED <<genVars, searchVars, callVars, uiVars>>

NextSolve ==
    \/ \E i \in DOMAIN p : Blank(i)
    \/ \E i \in DOMAIN p : \E v \in Digits(N) : Overwrite(i, v)
    \/ \E b \in BoxSizes(N) : Call_solveBacktracking(b)
    \/ \E b \in BoxSizes(N) : Call_hasUniqueSolution(b)
    \/ \E b \in BoxSizes(N) : Call_solveBacktrackingWithMetrics(b)

SpecSolve == InitSolve /\ [][NextSolve]_vars

-----------------------------------------------------------------------------
(* Generator specification: generatePuzzle and generatePuzzleForDifficulty. *)
(* The engine works on the 4x4 board (N = 4, B = 2).  A call of             *)
(* generatePuzzleForDifficulty names the board edge it is made for: with 4  *)
(* it takes the shortcut of the source; with 9 the attempt loop runs, on    *)
(* the 4x4 board and under the profiles of DIFF_CONFIG scaled from 81 to 16 *)
(* cells, since the searches of a 9x9 board are out of reach of exhaustive  *)
(* exploration.  Each step is one iteration of a loop of the source; the    *)
(* engine calls inside an iteration are evaluated as a whole.               *)

\* nowMs() values are 0 .. MaxClock
MaxClock == 3

\* shuffled([...Array(N * N).keys()]): the permutations followed
Stride(k) == [j \in 1 .. 16 |-> ((j - 1) * k) % 16]
CarveOrders == {Stride(5), Stride(15)}

\* every grid generateFullSolution(4, 2) can return, over the fill orders followed
FullSolutions4 == UNION {generateFullSolution(4, 2, o, 4) : o \in CarveOrders}

\* the second completion of the fixture (the transpose of the first)
FixtureSolution2 == GridOf(<<1,3,2,4, 2,4,1,3, 3,1,4,2, 4,2,3,1>>)

\* the full solutions followed through the attempt loop (InitGen requires them
\* to be grids generateFullSolution can return)
AttemptSolutions == {FixtureSolution, FixtureSolution2}

\* DIFF_CONFIG, clue bands scaled by 16/81, node floors and budgets scaled to
\* the searches of a 4x4 board
DIFF_CONFIG(d) ==
    CASE d = "intermediate" ->
           [minClues |-> 7, maxClues |-> 8, requireSinglesSolvable |-> TRUE,
            minSearchNodes |-> 9, maxTries |-> 2, maxGenMs |-> 1]
      [] d = "advanced" ->
           [minClues |-> 5, maxClues |-> 6, requireSinglesSolvable |-> FALSE,
            minSearchNodes |-> 11, maxTries |-> 2, maxGenMs |-> 1]
      [] d = "expert" ->
           [minClues |-> 4, maxClues |-> 4, requireSinglesSolvable |-> FALSE,
            minSearchNodes |-> 13, maxTries |-> 2, maxGenMs |-> 1]

Profiles == {"intermediate", "advanced", "expert"}
Diffs == Profiles \cup {"beginner", "custom"}
\* const cfg = DIFF_CONFIG[diff] || DIFF_CONFIG.intermediate
ConfigOf(d) == IF d \in Profiles THEN DIFF_CONFIG(d) ELSE DIFF_CONFIG("intermediate")
cfg == ConfigOf(diff)

\* the values a call of nowMs() can return after it last returned n
nowMs(n) == n .. MaxClock

\* nowMs() > deadline
PastDeadline_Never(n, d) == FALSE
PastDeadline(n, d) == n > d

Abs(x) == IF x < 0 THEN -x ELSE x
CountClues(g) == Cardinality({i \in DOMAIN g : g[i] # 0})

InitGen ==
    /\ N = 4 /\ B = 2
    /\ AttemptSolutions \subseteq FullSolutions4
    /\ pc = "call"
    /\ SolveIdle
    /\ GenIdle
    /\ SearchIdle
    /\ CallIdle /\ UiIdle

\* generatePuzzle up to its loop: sol, idxs, puzzle, clues; sols are the
\* outcomes of generateFullSolution followed
EnterGeneratePuzzleWith(sols, orders) ==
    /\ sol' \in sols
    /\ idxs' \in orders
    /\ puzzle' = sol'
    /\ clues' = N * N
    /\ t' = 1
    /\ pc' = "generatePuzzle"

EnterGeneratePuzzle(sols) == EnterGeneratePuzzleWith(sols, CarveOrders)

Call_generatePuzzle ==
    /\ pc = "call"
    /\ entry' = "generatePuzzle"
    /\ path' = "generatePuzzle"
    /\ EnterGeneratePuzzle(FullSolutions4)
    /\ UNCHANGED <<N, B, diff, now, deadline, attempt, best, singles, metrics, started, tried, ret>>
    /\ UNCHANGED <<solveVars, searchVars, callVars, uiVars>>

\* one iteration of the loop of generatePuzzle, and the return after the last
Step_generatePuzzle ==
    /\ pc = "generatePuzzle"
    /\ LET idx == idxs[t]
           minClues == IF N = 4 THEN 6 ELSE 34
           removed == [puzzle EXCEPT ![idx] = 0]
       IN  \E unique \in (IF puzzle[idx] = 0 THEN {TRUE}
                          ELSE hasUniqueSolution(removed, N, B, N)) :
             LET skip == puzzle[idx] = 0
                 puzzle1 == IF skip \/ ~unique THEN puzzle ELSE removed
                 clues1 == IF skip THEN clues
                           ELSE IF ~unique THEN (clues - 1) + 1 ELSE clues - 1
                 brk == ~skip /\ unique /\ clues1 <= minClues
             IN  /\ puzzle' = puzzle1
                 /\ clues' = clues1
                 /\ IF brk \/ t = Len(idxs)
                    THEN /\ ret' = [puzzle |-> puzzle1, solution |-> sol]
                         /\ pc' = "done"
                         /\ t' = t
                    ELSE /\ t' = t + 1
                         /\ UNCHANGED <<ret, pc>>
    /\ UNCHANGED <<N, B, entry, diff, now, deadline, attempt, best, sol, idxs,
                   singles, metrics, started, tried, path>>
    /\ UNCHANGED <<solveVars, searchVars, callVars, uiVars>>

\* generatePuzzleForDifficulty(d, size, B) up to its attempt loop
Call_generatePuzzleForDifficulty(d, size) ==
    /\ pc = "call"
    /\ entry' = "generatePuzzleForDifficulty"
    /\ diff' = d
    /\ IF size = 4 \/ d = "beginner"
       THEN /\ path' = "shortcut"
            /\ EnterGeneratePuzzle(AttemptSolutions)
            /\ UNCHANGED <<now, deadline, attempt, best>>
       ELSE /\ \E n0 \in nowMs(now) :
                 /\ now' = n0
                 /\ deadline' = n0 + ConfigOf(d).maxGenMs
            /\ best' = NoBest
            /\ attempt' = 0
            /\ pc' = "attempt"
            /\ UNCHANGED <<sol, idxs, puzzle, clues, t, path>>
    /\ UNCHANGED <<N, B, singles, metrics, started, tried, ret>>
    /\ UNCHANGED <<solveVars, searchVars, callVars, uiVars>>

\* the head of the attempt loop, and step 1 and the shuffle of step 2
Attempt_Start ==
    /\ pc = "attempt"
    /\ IF attempt < cfg.maxTries
       THEN \E n1 \in nowMs(now) :
              /\ now' = n1
              /\ IF PastDeadline(n1, deadline)
                 THEN /\ pc' = "fallback"
                      /\ UNCHANGED <<sol, puzzle, clues, idxs, t, started>>
                 ELSE /\ sol' \in AttemptSolutions
                      /\ puzzle' = sol'
                      /\ clues' = N * N
                      /\ idxs' \in CarveOrders
                      /\ t' = 1
                      /\ started' = Append(started, n1)
                      /\ pc' = "carve"
       ELSE /\ pc' = "fallback"
            /\ UNCHANGED <<now, sol, puzzle, clues, idxs, t, started>>
    /\ singles' = FALSE /\ metrics' = -1
    /\ UNCHANGED <<N, B, entry, diff, deadline, attempt, best, tried, ret, path>>
    /\ UNCHANGED <<solveVars, searchVars, callVars, uiVars>>

\* a removal loop that undoes a removal only when uniqueness is lost
RemovalStep_NoFloor(floor, stop, next) ==
    LET idx == idxs[t]
        removed == [puzzle EXCEPT ![idx] = 0]
    IN  IF puzzle[idx] = 0
        THEN /\ IF t = Len(idxs)
                THEN /\ pc' = next /\ idxs' \in CarveOrders /\ t' = 1
                ELSE /\ t' = t + 1 /\ UNCHANGED <<pc, idxs>>
             /\ UNCHANGED <<puzzle, clues, now>>
        ELSE \E unique \in hasUniqueSolution(removed, N, B, N) :
               LET undo == ~unique
                   puzzle1 == IF undo THEN puzzle ELSE removed
                   clues1 == IF undo THEN (clues - 1) + 1 ELSE clues - 1
               IN  /\ puzzle' = puzzle1
                   /\ clues' = clues1
                   /\ \E n1 \in (IF clues1 <= stop THEN {now} ELSE nowMs(now)) :
                        /\ now' = n1
                        /\ IF clues1 <= stop \/ PastDeadline(n1, deadline) \/ t = Len(idxs)
                           THEN /\ pc' = next /\ idxs' \in CarveOrders /\ t' = 1
                           ELSE /\ t' = t + 1 /\ UNCHANGED <<pc, idxs>>

\* one iteration of a removal loop of an attempt: floor is the count below
\* which a removal is undone, stop the count at which the loop breaks, and
\* next the step that follows the loop
RemovalStep(floor, stop, next) ==
    LET idx == idxs[t]
        removed == [puzzle EXCEPT ![idx] = 0]
    IN  IF puzzle[idx] = 0
        THEN /\ IF t = Len(idxs)
                THEN /\ pc' = next /\ idxs' \in CarveOrders /\ t' = 1
                ELSE /\ t' = t + 1 /\ UNCHANGED <<pc, idxs>>
             /\ UNCHANGED <<puzzle, clues, now>>
        ELSE \E unique \in hasUniqueSolution(removed, N, B, N) :
               LET undo == ~unique \/ clues - 1 < floor
                   puzzle1 == IF undo THEN puzzle ELSE removed
                   clues1 == IF undo THEN (clues - 1) + 1 ELSE clues - 1
               IN  /\ puzzle' = puzzle1
                   /\ clues' = clues1
                   /\ \E n1 \in (IF clues1 <= stop THEN {now} ELSE nowMs(now)) :
                        /\ now' = n1
                        /\ IF clues1 <= stop \/ PastDeadline(n1, deadline) \/ t = Len(idxs)
                           THEN /\ pc' = next /\ idxs' \in CarveOrders /\ t' = 1
                           ELSE /\ t' = t + 1 /\ UNCHANGED <<pc, idxs>>

\* step 2: carve clues toward minClues, keeping uniqueness
Carve_Step ==
    /\ pc = "carve"
    /\ RemovalStep(0, cfg.minClues, "nudge")
    /\ UNCHANGED <<N, B, entry, diff, deadline, attempt, best, sol,
                   singles, metrics, started, tried, ret, path>>
    /\ UNCHANGED <<solveVars, searchVars, callVars, uiVars>>

\* step 3: nudge toward <= maxClues (still unique)
Nudge_Step ==
    /\ pc = "nudge"
    /\ RemovalStep(cfg.minClues, cfg.maxClues, "classify")
    /\ UNCHANGED <<N, B, entry, diff, deadline, attempt, best, sol,
                   singles, metrics, started, tried, ret, path>>
    /\ UNCHANGED <<solveVars, searchVars, callVars, uiVars>>

\* best = { puzzle: puzzle.slice(), solution: sol.slice(), clues, nodes }
Candidate_NotKept(nodes) == NoBest
Candidate(nodes) == [puzzle |-> puzzle, solution |-> sol, clues |-> clues, nodes |-> nodes]

\* the band test of an attempt: clues < cfg.minClues || clues > cfg.maxClues
OutOfBand(c, k) == c < k.minClues \/ c > k.maxClues

\* okSingles && okNodes
Accepts_AnyNodes(k, s, nodes) ==
    IF k.requireSinglesSolvable THEN s ELSE ~s
Accepts(k, s, nodes) ==
    /\ IF k.requireSinglesSolvable THEN s ELSE ~s
    /\ nodes >= k.minSearchNodes

\* the out-of-band branch: keep closest as a fallback
keepClosest_Always(b, c, mid) == c
keepClosest(b, c, mid) ==
    IF b = NoBest \/ Abs(c.clues - mid) < Abs(b.clues - mid) THEN c ELSE b

\* the in-band branch: keep a decent fallback (best.nodes || -1 is -1 for 0)
keepHardest(b, c) ==
    IF b = NoBest \/ c.nodes > (IF b.nodes = 0 THEN -1 ELSE b.nodes) THEN c ELSE b

\* the entry of the history tried for the attempt that ends
Tried(inBand, nodes) ==
    [puzzle |-> puzzle, solution |-> sol, clues |-> CountClues(puzzle),
     nodes |-> nodes, inBand |-> inBand]

\* the band rejection and step 4 of an attempt
Classify ==
    /\ pc = "classify"
    /\ IF OutOfBand(clues, cfg)
       THEN LET mid == (cfg.minClues + cfg.maxClues) \div 2 IN
            /\ best' = keepClosest(best, Candidate(0), mid)
            /\ tried' = Append(tried, Tried(FALSE, 0))
            /\ attempt' = attempt + 1
            /\ pc' = "attempt"
            /\ UNCHANGED <<singles, metrics, ret, path>>
       ELSE \E m \in solveBacktrackingWithMetrics(puzzle, N, B, N) :
            \E unique \in hasUniqueSolution(puzzle, N, B, N) :
              LET s == solveWithSingles(puzzle, N, B) IN
              /\ singles' = s.solved
              /\ metrics' = m.nodes
              /\ IF ~unique
                 THEN /\ attempt' = attempt + 1 /\ pc' = "attempt"
                      /\ UNCHANGED <<best, tried, ret, path>>
                 ELSE IF Accepts(cfg, s.solved, m.nodes)
                 THEN /\ ret' = [puzzle |-> puzzle, solution |-> sol]
                      /\ path' = "accepted"
                      /\ pc' = "done"
                      /\ UNCHANGED <<best, tried, attempt>>
                 ELSE /\ best' = keepHardest(best, Candidate(m.nodes))
                      /\ tried' = Append(tried, Tried(TRUE, m.nodes))
                      /\ attempt' = attempt + 1
                      /\ pc' = "attempt"
                      /\ UNCHANGED <<ret, path>>
    /\ UNCHANGED <<N, B, entry, diff, now, deadline, sol, puzzle, clues, idxs, t, started>>
    /\ UNCHANGED <<solveVars, searchVars, callVars, uiVars>>

\* the fallbacks when the loop ran out of time or tries
Fallback ==
    /\ pc = "fallback"
    /\ IF best # NoBest
       THEN /\ ret' = [puzzle |-> best.puzzle, solution |-> best.solution]
            /\ path' = "near-miss"
            /\ pc' = "done"
            /\ UNCHANGED <<sol, idxs, puzzle, clues, t>>
       ELSE /\ path' = "fallback generatePuzzle"
            /\ EnterGeneratePuzzle(AttemptSolutions)
            /\ UNCHANGED ret
    /\ UNCHANGED <<N, B, entry, diff, now, deadline, attempt, best, singles, metrics, started, tried>>
    /\ UNCHANGED <<solveVars, searchVars, callVars, uiVars>>

\* board edges generatePuzzleForDifficulty is called for
CallSizes == {4, 9}

NextGen ==
    \/ Call_generatePuzzle
    \/ Step_generatePuzzle
    \/ \E d \in Diffs : \E size \in CallSizes : Call_generatePuzzleForDifficulty(d, size)
    \/ Attempt_Start
    \/ Carve_Step
    \/ Nudge_Step
    \/ Classify
    \/ Fallback

SpecGen == InitGen /\ [][NextGen]_vars

-----------------------------------------------------------------------------
(* Search specification: one run of bt() of solveBacktrackingCore or of     *)
(* generateFullSolution, statement by statement.  run is the closure's       *)
(* mutable state and stack the activations of bt that are inside their      *)
(* candidate loop, innermost last; a frame is [i, v, untried, saved]: the   *)
(* cell picked, the candidate assigned (0 before the first), the candidates *)
(* not tried yet, and (history) g and masks as the activation found them.   *)
(* p, N, B are the arguments, fn the public function that made the call,    *)
(* idxs the fill order of generateFullSolution.                             *)

\* cells cleared from FixtureSolution to build the inputs of the search
MaxCleared == 12

\* FixtureSolution without its first k cells in the order Stride(5)
Cleared(k) == [i \in Cells(4) |->
                 IF \E j \in 1 .. k : Stride(5)[j] = i THEN 0 ELSE FixtureSolution[i]]

\* a full grid with two equal digits in row 0, and a grid whose cell 3 has no candidate
ConflictGrid == [FixtureSolution EXCEPT ![0] = 2]
DeadGrid == [Cleared(5) EXCEPT ![3] = 0, ![7] = 4]

\* a grid with empty cells and two equal digits in row 0
ConflictPartial == [Cleared(6) EXCEPT ![1] = 3]

\* the first row of FixtureSolution alone: a grid with twelve completions
FirstRow == [i \in Cells(4) |-> IF i < 4 THEN FixtureSolution[i] ELSE 0]

SearchInputs ==
    {Fixture, FirstRow, ConflictGrid, ConflictPartial, DeadGrid}
        \cup {Cleared(k) : k \in {3, 6, 9, MaxCleared}}

SearchFns == {"solveBacktracking", "hasUniqueSolution", "solveBacktrackingWithMetrics",
              "generateFullSolution"}

\* the opts each public function passes to solveBacktrackingCore
OptsOf(f) ==
    CASE f = "solveBacktracking" ->
           [countOnly |-> FALSE, wantMetrics |-> FALSE, maxSolutions |-> 2]
      [] f = "hasUniqueSolution" ->
           [countOnly |-> TRUE, wantMetrics |-> FALSE, maxSolutions |-> 2]
      [] f = "solveBacktrackingWithMetrics" ->
           [countOnly |-> FALSE, wantMetrics |-> TRUE, maxSolutions |-> 1]

InGenerator == fn = "generateFullSolution"

\* the orders of the digits a search followed step by step takes: all of them
\* on the 4x4 board, the increasing one on the 9x9 board
ShuffleWidth(n) == IF n = 4 THEN n ELSE 1

\* the constants of the running call of solveBacktrackingCore
SearchCtx ==
    [M |-> buildIndexMaps(N, B), empties |-> EmptiesOf(p),
     countOnly |-> OptsOf(fn).countOnly, maxSolutions |-> OptsOf(fn).maxSolutions,
     width |-> ShuffleWidth(N)]

\* the state in which bt() is first called
SearchStart(f, q, n, b) ==
    IF f = "generateFullSolution"
    THEN [g |-> genInitial(n).g, masks |-> genInitial(n).masks,
          solutions |-> 0, nodes |-> 0, solvedOnce |-> {}]
    ELSE [g |-> q, masks |-> computeMasks(q, buildIndexMaps(n, b)),
          solutions |-> 0, nodes |-> 0, solvedOnce |-> {}]

InitSearch ==
    /\ N = 4 /\ B = 2
    /\ fn \in SearchFns
    /\ p \in (IF fn = "generateFullSolution" THEN {genInitial(4).g} ELSE SearchInputs)
    /\ idxs \in (IF fn = "generateFullSolution" THEN CarveOrders ELSE {<<>>})
    /\ run = SearchStart(fn, p, N, B)
    /\ stack = <<>>
    /\ retval = FALSE
    /\ pc = "bt"
    /\ blanks = 0 /\ edits = 0 /\ res = [solved |-> FALSE]
    /\ entry = "none" /\ diff = "none"
    /\ now = 0 /\ deadline = 0 /\ attempt = 0 /\ best = NoBest
    /\ sol = NoGrid /\ puzzle = NoGrid /\ clues = 0 /\ t = 0
    /\ singles = FALSE /\ metrics = -1
    /\ started = <<>> /\ tried = <<>> /\ ret = NoPair /\ path = "none"
    /\ CallIdle /\ UiIdle

searchFrame == <<N, B, p, blanks, edits, fn, entry, diff, now, deadline, attempt, best,
                 sol, puzzle, clues, idxs, t, singles, metrics, started, tried, ret, path,
                 MAPS, heap, state, log, isBuilding, buildToken, frames, timers>>

\* saved is history: the g and masks bt() was entered with, kept when the
\* search is the call under study
NoSnapshot == [g |-> NoGrid, masks |-> NoGrid]
Frame(i, untried) ==
    [i |-> i, v |-> 0, untried |-> untried,
     saved |-> IF entry = "none" THEN [g |-> run.g, masks |-> run.masks] ELSE NoSnapshot]
Top == stack[Len(stack)]
Pop == SubSeq(stack, 1, Len(stack) - 1)

\* bt() is entered: the completed test, selectMRV and the dead-end test
Bt_Enter ==
    /\ pc = "bt"
    /\ IF InGenerator
       THEN LET pick == genSelectMRV(run, idxs, buildIndexMaps(N, B)) IN
            IF pick.i = -1 \/ pick.cnt = 0
            THEN /\ retval' = (pick.i = -1)
                 /\ pc' = "ret"
                 /\ UNCHANGED <<run, stack>>
            ELSE /\ stack' = Append(stack, Frame(pick.i, maskToDigits(pick.cm, N)))
                 /\ pc' = "loop"
                 /\ UNCHANGED <<run, retval>>
       ELSE IF \A i \in DOMAIN run.g : run.g[i] # 0
            THEN LET r == btCompleted(run, SearchCtx) IN
                 /\ run' = r.st
                 /\ retval' = r.ret
                 /\ pc' = "ret"
                 /\ UNCHANGED stack
            ELSE LET pick == selectMRV(run, SearchCtx) IN
                 IF pick.i = -1 \/ pick.cnt = 0
                 THEN /\ retval' = FALSE
                      /\ pc' = "ret"
                      /\ UNCHANGED <<run, stack>>
                 ELSE /\ stack' = Append(stack, Frame(pick.i, maskToDigits(pick.cm, N)))
                      /\ pc' = "loop"
                      /\ UNCHANGED <<run, retval>>
    /\ UNCHANGED <<searchFrame, res>>

\* one iteration of the candidate loop up to its call of bt(): v = cand[k],
\* assign(pick.i, v), nodes++
Loop_Try ==
    /\ pc = "loop"
    /\ Top.untried # {}
    /\ \E v \in NextOf(Top.untried, ShuffleWidth(N)) :
         /\ run' = IF InGenerator
                  THEN genAssign(run, Top.i, v, buildIndexMaps(N, B))
                  ELSE [assign(run, Top.i, v, buildIndexMaps(N, B)) EXCEPT !.nodes = @ + 1]
         /\ stack' = [stack EXCEPT ![Len(stack)] =
                         [@ EXCEPT !.v = v, !.untried = @ \ {v}]]
    /\ pc' = "bt"
    /\ UNCHANGED <<searchFrame, res, retval>>

\* the candidate loop has run out: return false
Loop_Exhausted ==
    /\ pc = "loop"
    /\ Top.untried = {}
    /\ stack' = Pop
    /\ retval' = FALSE
    /\ pc' = "ret"
    /\ UNCHANGED <<searchFrame, res, run>>

\* bt() has returned into the loop of its caller: if (bt()) return true;
\* unassign(pick.i, v)
Bt_Return ==
    /\ pc = "ret"
    /\ stack # <<>>
    /\ IF retval
       THEN /\ stack' = Pop
            /\ UNCHANGED <<run, pc, retval>>
       ELSE /\ run' = IF InGenerator
                     THEN genUnassign(run, Top.i, Top.v, buildIndexMaps(N, B))
                     ELSE unassign(run, Top.i, Top.v, buildIndexMaps(N, B))
            /\ pc' = "loop"
            /\ UNCHANGED <<stack, retval>>
    /\ UNCHANGED <<searchFrame, res>>

\* the outermost bt() has returned: the value the public function returns
Search_Return ==
    /\ pc = "ret"
    /\ stack = <<>>
    /\ res' = IF InGenerator THEN [g |-> run.g]
              ELSE [solved |-> run.solutions > 0, solution |-> run.solvedOnce,
                    solutionsCount |-> run.solutions,
                    nodes |-> IF OptsOf(fn).wantMetrics THEN run.nodes ELSE 0]
    /\ pc' = "done"
    /\ UNCHANGED <<searchFrame, run, stack, retval>>

NextSearch ==
    \/ Bt_Enter
    \/ Loop_Try
    \/ Loop_Exhausted
    \/ Bt_Return
    \/ Search_Return

SpecSearch == InitSearch /\ [][NextSearch]_vars

-----------------------------------------------------------------------------
(* Topology specification: the tables of buildIndexMaps(N, B) and the       *)
(* index helpers, read at a pair of cells i, j.                             *)

\* the (N, B) of the two boards of the game
Topologies == {<<4, 2>>, <<9, 3>>}

\* the cells buildIndexMaps lists in CELLS_IN_BOX[k]
CELLS_IN_BOX(k, n, b) == {i \in Cells(n) : BOX_OF(i, n, b) = k}

InitTopo ==
    /\ \E tp \in Topologies : N = tp[1] /\ B = tp[2]
    /\ pc = "maps"
    /\ res = [i |-> -1]
    /\ p = NoGrid /\ blanks = 0 /\ edits = 0 /\ fn = "none"
    /\ GenIdle /\ SearchIdle /\ CallIdle /\ UiIdle

\* the tables and helpers read at cell i
Lookup(i) ==
    /\ pc \in {"maps", "read"}
    /\ res' = [i |-> i, j |-> i,
               row |-> ROW_OF(i, N), col |-> COL_OF(i, N), box |-> BOX_OF(i, N, B),
               back |-> rcToIndex(ROW_OF(i, N), COL_OF(i, N), N),
               boxOfJ |-> BOX_OF(i, N, B),
               inBoxOfI |-> i \in boxIndices(i, N, B)]
    /\ pc' = "read"
    /\ UNCHANGED <<N, B, p, blanks, edits, fn>>
    /\ UNCHANGED <<genVars, searchVars, callVars, uiVars>>

\* a second cell j compared with the box of the cell read last
Compare(j) ==
    /\ pc = "read"
    /\ res' = [res EXCEPT !.j = j,
                          !.boxOfJ = BOX_OF(j, N, B),
                          !.inBoxOfI = j \in boxIndices(res.i, N, B)]
    /\ UNCHANGED <<N, B, pc, p, blanks, edits, fn>>
    /\ UNCHANGED <<genVars, searchVars, callVars, uiVars>>

NextTopo ==
    \/ \E i \in Cells(N) : Lookup(i)
    \/ \E j \in Cells(N) : Compare(j)

SpecTopo == InitTopo /\ [][NextTopo]_vars

-----------------------------------------------------------------------------
(* Calls specification: the public solver functions called one after the   *)
(* other by a caller that owns a 4x4 and a 9x9 puzzle array.  Arrays live   *)
(* in the heap and are passed by reference; the arrays a call allocates    *)
(* are unreachable once it has returned and are dropped then.              *)

\* puzzle.slice(): a new array holding the elements of heap[r]
slice_Alias(h, r) == [heap |-> h, ref |-> r]
slice(h, r) == [heap |-> Append(h, h[r]), ref |-> Len(h) + 1]

\* buildIndexMaps(N, B) with the cache it finds in MAPS: the maps it returns,
\* which are also the value MAPS has afterwards
cachedMaps_Stale(cache, n, b) ==
    IF cache # NoMaps THEN cache ELSE buildIndexMaps(n, b)
cachedMaps(cache, n, b) ==
    IF cache # NoMaps /\ cache.N = n /\ cache.B = b THEN cache ELSE buildIndexMaps(n, b)

\* the value a public wrapper makes of the search's final variables
wrapResult(f, st) ==
    CASE f = "solveBacktracking" ->
           [solved |-> st.solutions > 0, solution |-> st.solvedOnce,
            solutionsCount |-> st.solutions]
      [] f = "solveBacktrackingWithMetrics" ->
           [solved |-> st.solutions > 0, nodes |-> st.nodes,
            solutionsCount |-> st.solutions]
      [] f = "hasUniqueSolution" ->
           [unique |-> st.solutions = 1]

\* solveBacktrackingCore called through wrapper f on the array heap[r]: the
\* value returned, the maps used and the heap the call leaves behind
coreCall(f, h, r, n, b, cache, width) ==
    LET M    == cachedMaps(cache, n, b)
        sl   == slice(h, r)
        g    == sl.heap[sl.ref]
        opts == OptsOf(f)
        ctx  == [M |-> M, empties |-> EmptiesOf(g), countOnly |-> opts.countOnly,
                 maxSolutions |-> opts.maxSolutions, width |-> width]
        st0  == [g |-> g, masks |-> computeMasks(g, M),
                 solutions |-> 0, nodes |-> 0, solvedOnce |-> {}]
    IN  { [out  |-> wrapResult(f, o.st),
           maps |-> M,
           heap |-> [sl.heap EXCEPT ![sl.ref] = o.st.g]]
          : o \in bt(st0, ctx) }

RECURSIVE singlesGrid(_, _, _)
\* the array g of solveWithSingles when its loop breaks
singlesGrid(g, n, b) ==
    LET naked == findNakedSingle(g, n, b)
        move  == IF naked # NoMove THEN naked ELSE findHiddenSingle(g, n, b)
    IN  IF move = NoMove THEN g
        ELSE singlesGrid([g EXCEPT ![move.idx] = move.value], n, b)

\* solveWithSingles called on the array heap[r]
singlesCall(h, r, n, b) ==
    LET sl == slice(h, r)
        g  == sl.heap[sl.ref]
    IN  [out  |-> solveWithSingles(g, n, b),
         heap |-> [sl.heap EXCEPT ![sl.ref] = singlesGrid(g, n, b)]]

\* a valid full 9x9 grid and puzzles cut from it
Full9 == [i \in Cells(9) |-> ((3 * (i \div 9) + ((i \div 9) \div 3) + (i % 9)) % 9) + 1]
Blank9(S) == [i \in Cells(9) |-> IF i \in S THEN 0 ELSE Full9[i]]

CallGrids4 == {Fixture, FirstRow, Cleared(3), ConflictGrid}
CallGrids9 == {Blank9({0, 40, 80}), Blank9(0 .. 8)}

CoreFns == {"solveBacktracking", "hasUniqueSolution", "solveBacktrackingWithMetrics"}

\* the (N, B) the caller passes with its array heap[r]
EdgeOf(g) == IF Cardinality(DOMAIN g) = 16 THEN 4 ELSE 9
BoxOfEdge(n) == IF n = 4 THEN 2 ELSE 3

InitCalls ==
    /\ N = 0 /\ B = 0
    /\ pc = "caller"
    /\ \E g4 \in CallGrids4 : \E g9 \in CallGrids9 : heap = <<g4, g9>>
    /\ MAPS = NoMaps
    /\ p = NoGrid /\ blanks = 0 /\ edits = 0 /\ fn = "none"
    /\ res = [ref |-> 0]
    /\ GenIdle /\ SearchIdle /\ UiIdle

\* f(heap[r], N, B) for one of the wrappers of solveBacktrackingCore
Call_core(f, r) ==
    LET n == EdgeOf(heap[r]) IN
    /\ pc \in {"caller", "returned"}
    /\ \E c \in coreCall(f, heap, r, n, BoxOfEdge(n), MAPS, n) :
          /\ res' = [ref |-> r, out |-> c.out, maps |-> c.maps, before |-> MAPS]
          /\ MAPS' = c.maps
          /\ heap' = SubSeq(c.heap, 1, Len(heap))
    /\ N' = n /\ B' = BoxOfEdge(n)
    /\ p' = heap[r]
    /\ blanks' = Cardinality({i \in DOMAIN heap[r] : heap[r][i] = 0})
    /\ fn' = f
    /\ pc' = "returned"
    /\ UNCHANGED edits
    /\ UNCHANGED <<genVars, searchVars, uiVars>>

\* solveWithSingles(heap[r], N, B)
Call_solveWithSingles(r) ==
    LET n == EdgeOf(heap[r])
        c == singlesCall(heap, r, n, BoxOfEdge(n))
    IN
    /\ pc \in {"caller", "returned"}
    /\ res' = [ref |-> r, out |-> c.out, maps |-> NoMaps, before |-> MAPS]
    /\ heap' = SubSeq(c.heap, 1, Len(heap))
    /\ N' = n /\ B' = BoxOfEdge(n)
    /\ p' = heap[r]
    /\ blanks' = Cardinality({i \in DOMAIN heap[r] : heap[r][i] = 0})
    /\ fn' = "solveWithSingles"
    /\ pc' = "returned"
    /\ UNCHANGED <<edits, MAPS>>
    /\ UNCHANGED <<genVars, searchVars, uiVars>>

NextCalls ==
    \/ \E f \in CoreFns : \E r \in DOMAIN heap : Call_core(f, r)
    \/ \E r \in DOMAIN heap : Call_solveWithSingles(r)

SpecCalls == InitCalls /\ [][NextCalls]_vars

-----------------------------------------------------------------------------
(* Page specification: the game state object and the handlers that change  *)
(* it, on the beginner board (difficulty 'beginner', N = 4, B = 2).  Of the *)
(* state object startTime, elapsed, mistakeCells, goodFlash and             *)
(* totalPuzzles are left out: no handler below reads them.  timerId is      *)
(* TRUE while an interval is set.  overlays, a field the object does not    *)
(* have, counts the win overlays checkWin has appended to the document.     *)
(* null is NoCell as a cell index and NoDigit as a digit.  A Set is the     *)
(* sequence of its elements in insertion order; the notes object is a       *)
(* function whose domain are the cells that have a Set.                     *)

MAX_HINTS == 5
STRICT_SOLUTION_CHECK_Off == FALSE
STRICT_SOLUTION_CHECK == TRUE

NoCell == -1
NoDigit == 0

\* delete obj[k] and obj[k] = v on an object keyed by cell index
Drop(obj, k) == [j \in DOMAIN obj \ {k} |-> obj[j]]
Put(obj, k, v) == [j \in DOMAIN obj \cup {k} |-> IF j = k THEN v ELSE obj[j]]

SetHas(sq, v) == \E j \in DOMAIN sq : sq[j] = v
SetDelete(sq, v) == SelectSeq(sq, LAMBDA x : x # v)
RECURSIVE NewSet(_)
\* new Set(a): the elements of array a, each once, in order of first occurrence
NewSet(a) ==
    IF a = <<>> THEN <<>>
    ELSE LET front == NewSet(SubSeq(a, 1, Len(a) - 1))
             x     == a[Len(a)]
         IN  IF SetHas(front, x) THEN front ELSE Append(front, x)

serializeNotes_Empty(notesObj) == <<>>
serializeNotes(notesObj) == [k \in DOMAIN notesObj |-> notesObj[k]]
deserializeNotes(raw) == [k \in DOMAIN raw |-> NewSet(raw[k])]

\* toggleNote(i, n) applied to the notes object
toggleNote(notes, i, n) ==
    LET s0 == IF i \in DOMAIN notes THEN notes[i] ELSE <<>>
        s1 == IF SetHas(s0, n) THEN SetDelete(s0, n) ELSE Append(s0, n)
    IN  IF s1 = <<>> THEN Drop(notes, i) ELSE Put(notes, i, s1)

\* setHighlightNumber(num) as the new value of highlightNumber
setHighlightNumber(cur, num) == IF cur = num THEN NoDigit ELSE num

remainingByDigit_CountsGivens(s, v) ==
    LET left == s.size - Cardinality({i \in DOMAIN s.givens : s.givens[i] = v})
    IN  IF left < 0 THEN 0 ELSE left

\* remainingByDigit()[v]
remainingByDigit(s, v) ==
    LET left == s.size - Cardinality({i \in DOMAIN s.grid : s.grid[i] = v})
    IN  IF left < 0 THEN 0 ELSE left

\* the snapshot pushUndo, undo and redo take of the state
Snapshot(s) ==
    [grid |-> s.grid, notes |-> serializeNotes(s.notes), selected |-> s.selected,
     score |-> s.score, highlightNumber |-> s.highlightNumber]

pushUndo(s) == [s EXCEPT !.undoStack = Append(@, Snapshot(s)), !.redoStack = <<>>]

\* the assignments of undo and redo from a popped snapshot
Restore(s, snap) ==
    [s EXCEPT !.grid = snap.grid, !.notes = deserializeNotes(snap.notes),
              !.selected = snap.selected, !.score = snap.score,
              !.highlightNumber = snap.highlightNumber]

isPlacementValidLocal(s, i) ==
    LET val == s.grid[i]
        onlyOnce(S) == Cardinality({j \in S : s.grid[j] = val}) = 1
    IN  \/ val = 0
        \/ /\ onlyOnce(rowIndices(i, s.size))
           /\ onlyOnce(colIndices(i, s.size))
           /\ onlyOnce(boxIndices(i, s.size, s.boxSize))

\* stopTimer() and startTimer() on the timerId field
stopTimer(s) == [s EXCEPT !.timerId = FALSE]
startTimer(s) == [stopTimer(s) EXCEPT !.timerId = TRUE]

\* checkWin(): when the grid matches the solution, the timer stops, the win
\* bonus is added and the win overlay is appended
checkWin_NoBonus(s) ==
    IF /\ DOMAIN s.grid # {}
       /\ \A i \in DOMAIN s.grid : s.grid[i] # 0 /\ s.grid[i] = s.solution[i]
    THEN [stopTimer(s) EXCEPT !.totalScore = @ + s.score, !.overlays = @ + 1]
    ELSE s
checkWin(s) ==
    IF /\ DOMAIN s.grid # {}
       /\ \A i \in DOMAIN s.grid : s.grid[i] # 0 /\ s.grid[i] = s.solution[i]
    THEN [stopTimer(s) EXCEPT !.score = @ + 100, !.totalScore = @ + s.score + 100,
                              !.overlays = @ + 1]
    ELSE s

IsGiven_Never(s, i) == FALSE
IsGiven(s, i) == s.givens[i] # 0

RECURSIVE carveLoop(_, _, _, _, _, _)
\* the loop of generatePuzzle from position tt of idxs on (1-based): the
\* puzzles it can end with
carveLoop(pz, c, order, tt, n, b) ==
    IF tt > Len(order) THEN {pz}
    ELSE LET idx == order[tt]
             cut == [pz EXCEPT ![idx] = 0]
         IN  IF pz[idx] = 0 THEN carveLoop(pz, c, order, tt + 1, n, b)
             ELSE UNION { IF ~u THEN carveLoop(pz, c, order, tt + 1, n, b)
                          ELSE IF c - 1 <= (IF n = 4 THEN 6 ELSE 34) THEN {cut}
                          ELSE carveLoop(cut, c - 1, order, tt + 1, n, b)
                          : u \in hasUniqueSolution(cut, n, b, n) }

\* the pairs generatePuzzle(4, 2) can return from the full solutions and
\* orders followed
NewGameOrders == {Stride(5)}
NewGamePairs ==
    UNION { { [puzzle |-> z, solution |-> sl] : z \in carveLoop(sl, 16, o, 1, 4, 2) }
            : sl \in AttemptSolutions, o \in NewGameOrders }

\* the number of events the page handles in a run, from the state object as
\* declared and from a session under way
MaxEvents == 7
MaxSessionEvents == 4

\* the values of pc in the two page specifications
Pages == {"page", "session"}

\* the cells clicked and the digits typed
ClickCells == {0, 1}
KeyDigits == {1, 2, 4}

\* the state object as declared
InitialState ==
    [difficulty |-> "beginner", size |-> 9, boxSize |-> 3,
     givens |-> NoGrid, grid |-> NoGrid, solution |-> NoGrid,
     selected |-> NoCell, notesMode |-> FALSE, notes |-> <<>>, highlightNumber |-> NoDigit,
     hintsUsed |-> 0, hintTarget |-> NoCell, hintValue |-> NoDigit,
     mistakes |-> 0, gameOver |-> FALSE,
     undoStack |-> <<>>, redoStack |-> <<>>,
     score |-> 0, totalScore |-> 0,
     timerId |-> FALSE, puzzleNumber |-> 1, overlays |-> 0]

\* newGame() with the pair generatePuzzleForDifficulty returned
newGame(s, pair) ==
    [startTimer(s) EXCEPT !.hintsUsed = 0, !.hintTarget = NoCell, !.hintValue = NoDigit,
              !.mistakes = 0, !.gameOver = FALSE,
              !.undoStack = <<>>, !.redoStack = <<>>, !.score = 0,
              !.notes = <<>>, !.highlightNumber = NoDigit,
              !.size = IF s.difficulty = "beginner" THEN 4 ELSE 9,
              !.boxSize = IF s.difficulty = "beginner" THEN 2 ELSE 3,
              !.givens = pair.puzzle, !.grid = pair.puzzle, !.solution = pair.solution]

restartGameSamePuzzle_KeepStacks(s) ==
    [startTimer(s) EXCEPT !.grid = s.givens,
              !.mistakes = 0, !.hintsUsed = 0, !.hintTarget = NoCell, !.hintValue = NoDigit,
              !.gameOver = FALSE,
              !.score = 0, !.notes = <<>>, !.highlightNumber = NoDigit]

restartGameSamePuzzle(s) ==
    [startTimer(s) EXCEPT !.grid = s.givens,
              !.mistakes = 0, !.hintsUsed = 0, !.hintTarget = NoCell, !.hintValue = NoDigit,
              !.gameOver = FALSE, !.undoStack = <<>>, !.redoStack = <<>>,
              !.score = 0, !.notes = <<>>, !.highlightNumber = NoDigit]

\* onGridClick on the cell td.dataset.idx = i
onGridClick(s, i) ==
    LET v == s.grid[i]
    IN  [s EXCEPT !.selected = i,
                  !.highlightNumber = IF v # 0 THEN setHighlightNumber(@, v) ELSE @]

\* gameOver(): the timer stops and the flag is set (its overlay is not modelled)
gameOver(s) == [stopTimer(s) EXCEPT !.gameOver = TRUE]

placeNumber(s, num) ==
    LET i == s.selected IN
    IF s.gameOver \/ i = NoCell THEN s
    ELSE IF IsGiven(s, i)
    THEN [s EXCEPT !.highlightNumber = setHighlightNumber(@, num)]
    ELSE IF s.notesMode
    THEN [pushUndo(s) EXCEPT !.notes = toggleNote(@, i, num), !.highlightNumber = num]
    ELSE IF remainingByDigit(s, num) = 0 /\ s.grid[i] # num
    THEN [s EXCEPT !.highlightNumber = num]
    ELSE LET u == pushUndo(s) IN
         IF STRICT_SOLUTION_CHECK
         THEN IF num # u.solution[i]
              THEN LET m == [u EXCEPT !.mistakes = @ + 1]
                   IN  IF m.mistakes >= 5 THEN gameOver(m) ELSE m
              ELSE checkWin([u EXCEPT !.grid[i] = num, !.notes = Drop(@, i),
                                      !.score = @ + 10])
         ELSE LET w == [u EXCEPT !.grid[i] = num] IN
              IF ~isPlacementValidLocal(w, i)
              THEN LET m == [w EXCEPT !.mistakes = @ + 1,
                                      !.score = IF @ - 5 < 0 THEN 0 ELSE @ - 5]
                   IN  IF m.mistakes >= 5 THEN gameOver(m) ELSE checkWin(m)
              ELSE checkWin([w EXCEPT !.score = @ + 10, !.notes = Drop(@, i)])

\* the click handler of numpad key v and the keydown handler of digit v
numberKey(s, v) ==
    IF ~(s.selected # NoCell /\ s.givens[s.selected] = 0)
    THEN [s EXCEPT !.highlightNumber = setHighlightNumber(@, v)]
    ELSE [placeNumber(s, v) EXCEPT !.highlightNumber = v]

eraseCell(s) ==
    LET i == s.selected IN
    IF s.gameOver \/ i = NoCell THEN s
    ELSE IF IsGiven(s, i) THEN s
    ELSE [pushUndo(s) EXCEPT !.grid[i] = 0, !.notes = Drop(@, i)]

\* hint(): the states it can leave (the random empty cell is any empty cell)
hint(s) ==
    IF s.gameOver \/ s.hintsUsed >= MAX_HINTS THEN {s}
    ELSE LET naked == findNakedSingle(s.grid, s.size, s.boxSize)
             moves == IF naked # NoMove THEN {naked}
                      ELSE {[idx |-> i, value |-> s.solution[i]]
                            : i \in {j \in DOMAIN s.grid : s.grid[j] = 0}}
         IN  IF moves = {} THEN {s}
             ELSE {[s EXCEPT !.hintsUsed = @ + 1, !.hintTarget = mv.idx,
                             !.hintValue = mv.value] : mv \in moves}

undo(s) ==
    IF s.undoStack = <<>> THEN s
    ELSE LET snap == s.undoStack[Len(s.undoStack)]
             u    == [s EXCEPT !.undoStack = SubSeq(@, 1, Len(@) - 1),
                                !.redoStack = Append(@, Snapshot(s))]
         IN  Restore(u, snap)

redo(s) ==
    IF s.redoStack = <<>> THEN s
    ELSE LET snap == s.redoStack[Len(s.redoStack)]
             u    == [s EXCEPT !.redoStack = SubSeq(@, 1, Len(@) - 1),
                                !.undoStack = Append(@, Snapshot(s))]
         IN  Restore(u, snap)

\* what undo and redo are to bring back: grid, notes, selected cell, score, highlight
View(s) ==
    [grid |-> s.grid, notes |-> s.notes, selected |-> s.selected,
     score |-> s.score, highlightNumber |-> s.highlightNumber]

NoState == [grid |-> NoGrid]

InitialLog ==
    [events |-> 0, last |-> "none", prev |-> "none", began |-> <<>>, undone |-> <<>>,
     beforeUndo |-> NoState, granted |-> 0, digit |-> NoDigit]

\* the history after handler h took the state from s to s2
Logged(h, s, s2) ==
    [events     |-> log.events + 1,
     last       |-> h,
     prev       |-> log.last,
     began      |-> IF h \in {"newGame", "restartGameSamePuzzle", "nextChallenge", "reload"}
                    THEN <<>>
                    ELSE IF h = "undo" /\ log.began # <<>>
                    THEN SubSeq(log.began, 1, Len(log.began) - 1)
                    ELSE IF h = "redo" /\ log.undone # <<>>
                    THEN Append(log.began, View(s))
                    ELSE IF h \in {"placeNumber", "numberKey", "eraseCell"}
                            /\ Len(s2.undoStack) = Len(s.undoStack) + 1
                    THEN Append(log.began, View(s))
                    ELSE log.began,
     undone     |-> IF h = "undo" /\ log.began # <<>>
                    THEN Append(log.undone, log.began[Len(log.began)])
                    ELSE IF h = "redo" /\ log.undone # <<>>
                    THEN SubSeq(log.undone, 1, Len(log.undone) - 1)
                    ELSE IF h \in {"undo", "redo", "hint", "onGridClick", "notesToggle"}
                    THEN log.undone
                    ELSE IF h \in {"placeNumber", "numberKey", "eraseCell"}
                            /\ Len(s2.undoStack) # Len(s.undoStack) + 1
                    THEN log.undone
                    ELSE <<>>,
     beforeUndo |-> IF h = "undo" /\ log.began # <<>> THEN s ELSE NoState,
     granted    |-> IF h \in {"newGame", "nextChallenge"} THEN 0
                    ELSE IF h = "hint" /\ s2.hintsUsed # s.hintsUsed THEN log.granted + 1
                    ELSE log.granted,
     digit      |-> NoDigit]

InitPage ==
    /\ N = 4 /\ B = 2
    /\ pc = "page"
    /\ state = InitialState
    /\ log = InitialLog
    /\ BuildIdle
    /\ SolveIdle /\ GenIdle /\ SearchIdle /\ CallIdle

\* handler h leaves the state s2
Handled(h, s2) ==
    /\ log.events < (IF pc = "page" THEN MaxEvents ELSE MaxSessionEvents)
    /\ state' = s2
    /\ log' = Logged(h, state, s2)
    /\ UNCHANGED <<N, B, pc>>
    /\ UNCHANGED <<solveVars, genVars, searchVars, callVars, buildVars>>

NewGame(pair) == pc \in Pages /\ Handled("newGame", newGame(state, pair))
Restart == pc \in Pages /\ Handled("restartGameSamePuzzle", restartGameSamePuzzle(state))
\* a click on the cell of index i of the board table, once the table has it
GridClick(i) == i \in DOMAIN state.grid /\ Handled("onGridClick", onGridClick(state, i))
NotesToggle == pc \in Pages /\ Handled("notesToggle", [state EXCEPT !.notesMode = ~@])
PlaceNumber(num) ==
    /\ pc \in Pages
    /\ log.events < (IF pc = "page" THEN MaxEvents ELSE MaxSessionEvents)
    /\ state' = placeNumber(state, num)
    /\ log' = [Logged("placeNumber", state, state') EXCEPT !.digit = num]
    /\ UNCHANGED <<N, B, pc>>
    /\ UNCHANGED <<solveVars, genVars, searchVars, callVars, buildVars>>

NumberKey(v) ==
    /\ pc \in Pages
    /\ log.events < (IF pc = "page" THEN MaxEvents ELSE MaxSessionEvents)
    /\ state' = numberKey(state, v)
    /\ log' = [Logged("numberKey", state, state') EXCEPT !.digit = v]
    /\ UNCHANGED <<N, B, pc>>
    /\ UNCHANGED <<solveVars, genVars, searchVars, callVars, buildVars>>

EraseCell == pc \in Pages /\ Handled("eraseCell", eraseCell(state))
Hint == pc \in Pages /\ \E s2 \in hint(state) : Handled("hint", s2)
Undo == pc \in Pages /\ Handled("undo", undo(state))
Redo == pc \in Pages /\ Handled("redo", redo(state))

NextPage ==
    \/ \E pair \in NewGamePairs : NewGame(pair)
    \/ Restart
    \/ \E i \in ClickCells : GridClick(i)
    \/ NotesToggle
    \/ \E num \in KeyDigits : PlaceNumber(num)
    \/ \E v \in KeyDigits : NumberKey(v)
    \/ EraseCell
    \/ Hint
    \/ Undo
    \/ Redo

SpecPage == InitPage /\ [][NextPage]_vars

-----------------------------------------------------------------------------
(* Session specification: the page with a game under way.  The runs start  *)
(* in states the handlers above reach from a new game (all cells but one    *)
(* filled in; every cell of one digit filled in; four hints taken; four     *)
(* wrong digits typed) and add the Next Challenge button of the win overlay *)
(* and a reload of the page, which saves on beforeunload and loads in init. *)

\* toInt(v, def) and clampInt(v, min, max, def) on the numbers JSON can carry
toInt(v, def) == IF v \in Int THEN v ELSE def
clampInt_NoUpper(v, min, max, def) ==
    LET n == toInt(v, def) IN IF n < min THEN def ELSE n
clampInt(v, min, max, def) ==
    LET n == toInt(v, def) IN IF n < min \/ n > max THEN def ELSE n

cleanGridArray(a, n) ==
    IF DOMAIN a # 0 .. (n * n - 1) THEN [i \in 0 .. (n * n - 1) |-> 0]
    ELSE [i \in DOMAIN a |-> clampInt(a[i], 0, n, 0)]

cleanNotes(raw, n) ==
    LET kept(arr) == NewSet(SelectSeq(arr, LAMBDA v : clampInt(v, 1, n, 0) # 0))
        keys      == {k \in DOMAIN raw : k >= 0 /\ k < n * n /\ kept(raw[k]) # <<>>}
    IN  [k \in keys |-> kept(raw[k])]

\* the object save() writes (elapsed and mistakeCells left out)
save(s) ==
    [difficulty |-> s.difficulty, size |-> s.size, givens |-> s.givens, grid |-> s.grid,
     solution |-> s.solution, notes |-> serializeNotes(s.notes),
     hintsUsed |-> s.hintsUsed, hintTarget |-> s.hintTarget, mistakes |-> s.mistakes,
     score |-> s.score, totalScore |-> s.totalScore, puzzleNumber |-> s.puzzleNumber]

\* load() of the saved object d into the state object as declared: the states
\* it can leave when it returns true
load(d) ==
    LET dif == IF d.difficulty \in {"beginner", "intermediate", "advanced", "expert"}
               THEN d.difficulty ELSE "beginner"
        n   == IF dif = "beginner" THEN 4 ELSE 9
        b   == IF dif = "beginner" THEN 2 ELSE 3
        gv  == cleanGridArray(d.givens, n)
        sols == IF DOMAIN d.solution = 0 .. (n * n - 1)
                THEN {cleanGridArray(d.solution, n)}
                ELSE UNION {r.solution : r \in {x \in solveBacktracking(gv, n, b, FALSE, n)
                                                   : x.solved}}
    IN  { [InitialState EXCEPT
              !.difficulty = dif, !.size = n, !.boxSize = b,
              !.givens = gv, !.grid = cleanGridArray(d.grid, n),
              !.notes = cleanNotes(d.notes, n),
              !.hintsUsed = clampInt(d.hintsUsed, 0, MAX_HINTS, 0),
              !.hintTarget = IF d.hintTarget = NoCell THEN NoCell
                             ELSE clampInt(d.hintTarget, 0, n * n - 1, NoCell),
              !.mistakes = clampInt(d.mistakes, 0, 999, 0),
              !.score = toInt(d.score, 0), !.totalScore = toInt(d.totalScore, 0),
              !.puzzleNumber = clampInt(d.puzzleNumber, 1, 9999, 1),
              !.solution = sl] : sl \in sols }

\* the click listener of #nextChallenge, with the newGame it calls
nextChallenge(s, pair) ==
    newGame([s EXCEPT !.overlays = @ - 1, !.score = 0, !.puzzleNumber = @ + 1], pair)

\* the click listener of #quitGame on the win overlay
quitGame(s) == [s EXCEPT !.overlays = @ - 1, !.score = 0, !.totalScore = 0]

RECURSIVE Play(_, _, _)
\* the state after the cells of sequence cs were clicked one by one and the
\* solution digit plus off (mod N) typed into each
Play(s, cs, off) ==
    IF cs = <<>> THEN s
    ELSE LET i == Head(cs)
             v == ((s.solution[i] - 1 + off) % s.size) + 1
         IN  Play(placeNumber(onGridClick(s, i), v), Tail(cs), off)

RECURSIVE Hinted(_, _)
\* the state after k clicks on Hint
Hinted(s, k) == IF k = 0 THEN s ELSE Hinted(CHOOSE x \in hint(s) : TRUE, k - 1)

\* the cells of S in ascending order
RECURSIVE Ascending(_)
Ascending(S) == IF S = {} THEN <<>> ELSE <<MinOf(S)>> \o Ascending(S \ {MinOf(S)})

EmptyCells(s) == {i \in DOMAIN s.grid : s.grid[i] = 0}

SessionStarts ==
    UNION { LET g0   == newGame(InitialState, pair)
                ones == {i \in EmptyCells(g0) : g0.solution[i] = g0.solution[0]}
                done == Play(g0, Ascending(ones), 0)
            IN  { Play(g0, Ascending(EmptyCells(g0) \ {0}), 0),
                  onGridClick(done, MinOf(EmptyCells(done))),
                  Hinted(g0, MAX_HINTS - 1),
                  Play(g0, <<0, 0, 0, 0>>, 1) }
            : pair \in NewGamePairs }

InitSession ==
    /\ N = 4 /\ B = 2
    /\ pc = "session"
    /\ state \in SessionStarts
    /\ log = [InitialLog EXCEPT !.granted = state.hintsUsed]
    /\ BuildIdle
    /\ SolveIdle /\ GenIdle /\ SearchIdle /\ CallIdle

NextChallenge(pair) ==
    /\ pc \in Pages
    /\ state.overlays = 1
    /\ Handled("nextChallenge", nextChallenge(state, pair))

QuitGame ==
    /\ pc \in Pages
    /\ state.overlays = 1
    /\ Handled("quitGame", quitGame(state))

Reload == pc \in Pages /\ \E s2 \in load(save(state)) : Handled("reload", s2)

NextSession ==
    \/ NextPage
    \/ \E pair \in NewGamePairs : NextChallenge(pair)
    \/ QuitGame
    \/ Reload

SpecSession == InitSession /\ [][NextSession]_vars

-----------------------------------------------------------------------------
(* Claims about the solver (specification SpecSolve).  pc = "done" is the   *)
(* state in which the called function has returned a value to its caller;  *)
(* no statement of the solver throws, so a call never ends otherwise.      *)

-----------------------------------------------------------------------------
(* The build guard of the page (specification SpecBuild): clicks on New     *)
(* Puzzle and Restart, changes of the difficulty selector, the setTimeout(0) *)
(* callbacks of newGame and the requestAnimationFrame callbacks of           *)
(* buildGridTable, run one at a time in any order the event loop allows.     *)

MaxBuildEvents == 4

BuildDifficulties == {"beginner", "intermediate"}

\* the pairs generatePuzzleForDifficulty can return for the difficulty of s
BuildPairs(s) ==
    IF s.difficulty = "beginner" THEN NewGamePairs
    ELSE {[puzzle |-> Blank9(0 .. 8), solution |-> Full9]}

Builder == [isBuilding |-> isBuilding, buildToken |-> buildToken, frames |-> frames]

SetBuilder(b) ==
    /\ isBuilding' = b.isBuilding
    /\ buildToken' = b.buildToken
    /\ frames' = b.frames

buildGridTable_NoGuard(b) ==
    [isBuilding |-> TRUE, buildToken |-> b.buildToken + 1,
     frames |-> Append(b.frames, b.buildToken + 1)]

\* buildGridTable(): guard, token, and the callback it leaves pending
buildGridTable(b) ==
    IF b.isBuilding THEN b
    ELSE [isBuilding |-> TRUE, buildToken |-> b.buildToken + 1,
          frames |-> Append(b.frames, b.buildToken + 1)]

\* the requestAnimationFrame callback of the build with the oldest token:
\* with a stale token or not it clears isBuilding (the rendering it does with
\* a matching token changes none of these variables)
frameCallback(b) == [b EXCEPT !.isBuilding = FALSE, !.frames = Tail(@)]

\* init() on a fresh page calls newGame(); on a page with a saved game it
\* calls buildGridTable() on the loaded state
InitBuild ==
    /\ N = 4 /\ B = 2
    /\ pc = "build"
    /\ log = [events |-> 0, last |-> "init"]
    /\ \/ /\ state = InitialState
          /\ isBuilding = FALSE /\ buildToken = 0 /\ frames = <<>>
          /\ timers = 1
       \/ /\ state \in UNION { load(save(g)) : g \in SessionStarts }
          /\ isBuilding = TRUE /\ buildToken = 1 /\ frames = <<1>>
          /\ timers = 0
    /\ SolveIdle /\ GenIdle /\ SearchIdle /\ CallIdle

BuildEvent(h) ==
    /\ pc = "build"
    /\ log.events < MaxBuildEvents
    /\ log' = [events |-> log.events + 1, last |-> h]
    /\ UNCHANGED <<N, B, pc>>
    /\ UNCHANGED <<solveVars, genVars, searchVars, callVars>>

BuildTask(h) ==
    /\ pc = "build"
    /\ log' = [log EXCEPT !.last = h]
    /\ UNCHANGED <<N, B, pc>>
    /\ UNCHANGED <<solveVars, genVars, searchVars, callVars>>

\* newGame() up to its setTimeout
ClickNewGame ==
    /\ BuildEvent("newGame")
    /\ timers' = IF isBuilding THEN timers ELSE timers + 1
    /\ UNCHANGED <<state, isBuilding, buildToken, frames>>

\* the change listener of the difficulty selector
ChangeDifficulty(d) ==
    /\ BuildEvent("difficulty")
    /\ state' = [state EXCEPT !.difficulty = d,
                              !.size = IF d = "beginner" THEN 4 ELSE 9,
                              !.boxSize = IF d = "beginner" THEN 2 ELSE 3,
                              !.puzzleNumber = 1]
    /\ timers' = IF isBuilding THEN timers ELSE timers + 1
    /\ UNCHANGED <<isBuilding, buildToken, frames>>

\* restartGameSamePuzzle() with its guard and its build
ClickRestart ==
    /\ BuildEvent("restartGameSamePuzzle")
    /\ IF isBuilding
       THEN UNCHANGED <<state, isBuilding, buildToken, frames>>
       ELSE /\ state' = restartGameSamePuzzle(state)
            /\ SetBuilder(buildGridTable(Builder))
    /\ UNCHANGED timers

\* the setTimeout(0) callback of newGame
NewGameTimeout ==
    /\ BuildTask("timeout")
    /\ timers > 0
    /\ timers' = timers - 1
    /\ \E pair \in BuildPairs(state) : state' = newGame(state, pair)
    /\ SetBuilder(buildGridTable(Builder))

\* the browser runs the oldest pending animation-frame callback
AnimationFrame ==
    /\ BuildTask("frame")
    /\ frames # <<>>
    /\ SetBuilder(frameCallback(Builder))
    /\ UNCHANGED <<state, timers>>

NextBuild ==
    \/ ClickNewGame
    \/ \E d \in BuildDifficulties : ChangeDifficulty(d)
    \/ ClickRestart
    \/ NewGameTimeout
    \/ AnimationFrame

SpecBuild == InitBuild /\ [][NextBuild]_vars

-----------------------------------------------------------------------------
(* Singles specification: the while loop of solveWithSingles, one iteration *)
(* per step, on conflict-free 4x4 puzzles.  res holds the working copy g,   *)
(* steps and (history) the move of the last iteration.                      *)

\* the inputs of the singles solver are a full grid with MaxHoles cells or
\* fewer cleared, and with MaxKept cells or fewer kept
MaxHoles == 2
MaxKept == 4

\* the full grid sl with the cells of S cleared
Holes(sl, S) == [i \in Cells(4) |-> IF i \in S THEN 0 ELSE sl[i]]

SinglesInputs ==
    {Holes(FixtureSolution, S) :
        S \in {T \in SUBSET Cells(4) : \/ Cardinality(T) <= MaxHoles
                                       \/ Cardinality(T) >= 16 - MaxKept}}
        \cup {DeadGrid}

InitSingles ==
    /\ N = 4 /\ B = 2
    /\ pc = "singles"
    /\ p \in SinglesInputs
    /\ blanks = 0 /\ edits = 0
    /\ fn = "solveWithSingles"
    /\ res = [g |-> p, steps |-> 0, move |-> NoMove]
    /\ GenIdle /\ SearchIdle /\ CallIdle /\ UiIdle

\* the move of one iteration: a naked single, else a hidden single, else null
singlesMove(g, n, b) ==
    LET naked == findNakedSingle(g, n, b)
    IN  IF naked # NoMove THEN naked ELSE findHiddenSingle(g, n, b)

\* one iteration that found a move: g[move.idx] = move.value; steps++
Singles_Step ==
    /\ pc = "singles"
    /\ \E move \in {singlesMove(res.g, N, B)} :
       /\ move # NoMove
       /\ res' = [g |-> [res.g EXCEPT ![move.idx] = move.value],
                  steps |-> res.steps + 1, move |-> move]
    /\ UNCHANGED <<N, B, pc, p, blanks, edits, fn>>
    /\ UNCHANGED <<genVars, searchVars, callVars, uiVars>>

\* the iteration that found no move: break, and the value returned
Singles_Return ==
    /\ pc = "singles"
    /\ singlesMove(res.g, N, B) = NoMove
    /\ res' = [res EXCEPT !.move = NoMove] @@
              [solved |-> \A i \in DOMAIN res.g : res.g[i] # 0]
    /\ pc' = "done"
    /\ UNCHANGED <<N, B, p, blanks, edits, fn>>
    /\ UNCHANGED <<genVars, searchVars, callVars, uiVars>>

NextSingles ==
    \/ Singles_Step
    \/ Singles_Return

SpecSingles == InitSingles /\ [][NextSingles]_vars

-----------------------------------------------------------------------------
(* Masks specification: candidateMask(i, computeMasks(g, M), M) and         *)
(* candidatesFor(i, g, N, B) applied to the same empty cell of the same     *)
(* grid, on both boards.  The grids are full grids with cells cleared and   *)
(* one cell overwritten, so that clues may conflict and cells may be dead.  *)

\* a grid with cell j set to v
Edited(g, j, v) == [g EXCEPT ![j] = v]

MaskGrids(n) ==
    IF n = 4
    THEN {Edited(Holes(FixtureSolution, S), j, v) :
             S \in {T \in SUBSET Cells(4) : Cardinality(T) <= MaxHoles},
             j \in Cells(4), v \in 0 .. 4}
    ELSE {Edited(Blank9(S), j, v) :
             S \in {0 .. 8, {0, 40, 80}, {30, 31, 32, 39, 41, 48, 49, 50}},
             j \in {0, 40, 80}, v \in 0 .. 9}

InitMasks ==
    /\ \E tp \in Topologies : N = tp[1] /\ B = tp[2]
    /\ pc = "masks"
    /\ p \in MaskGrids(N)
    /\ blanks = 0 /\ edits = 0
    /\ fn = "none"
    /\ res = [i |-> -1]
    /\ GenIdle /\ SearchIdle /\ CallIdle /\ UiIdle

\* both engines are asked for the candidates of the empty cell i
Candidates(i) ==
    /\ pc = "masks"
    /\ p[i] = 0
    /\ LET M == buildIndexMaps(N, B) IN
       res' = [i |-> i,
               cm |-> candidateMask(i, computeMasks(p, M), M),
               digits |-> maskToDigits(candidateMask(i, computeMasks(p, M), M), N),
               cand |-> candidatesFor(i, p, N, B)]
    /\ fn' = "candidateMask"
    /\ UNCHANGED <<N, B, pc, p, blanks, edits>>
    /\ UNCHANGED <<genVars, searchVars, callVars, uiVars>>

NextMasks == \E i \in Cells(N) : Candidates(i)

SpecMasks == InitMasks /\ [][NextMasks]_vars

-----------------------------------------------------------------------------
(* Carve specification: generatePuzzle(9, 3) on the 9x9 board, for one full *)
(* solution and two of the permutations shuffled can return.  An iteration  *)
(* of the loop is two steps, up to its call of hasUniqueSolution and from   *)
(* its return on; between them the search runs statement by statement, as   *)
(* in the search specification.  Both permutations visit the cells of       *)
(* Kept9 after the others, so that the loop walks through all 81 cells      *)
(* without coming down to the floor of 34 clues.                            *)

\* the grid generateFullSolution(9, 3) returned
Solution9 ==
    GridOf(<<3,5,4,2,9,7,1,8,6,
             1,6,9,4,8,5,2,7,3,
             8,2,7,3,6,1,4,5,9,
             5,9,2,8,4,3,7,6,1,
             7,3,6,1,5,9,8,4,2,
             4,1,8,7,2,6,3,9,5,
             6,4,1,5,7,2,9,3,8,
             2,8,5,9,3,4,6,1,7,
             9,7,3,6,1,8,5,2,4>>)

\* the cells the permutations visit after the others, and the cells the
\* second permutation visits after those
Kept9 == {4, 5, 7, 8, 11, 12, 13, 14, 15, 16, 21, 22, 24, 26, 27, 31, 33, 34,
          36, 37, 38, 40, 44, 45, 47, 53, 60, 61, 64, 69, 71, 72, 74, 79, 80}
Late9 == {43}

\* shuffled([...Array(81).keys()]): the permutations followed
CarveOrders9 ==
    {Ascending(Cells(9) \ Kept9) \o Ascending(Kept9),
     Ascending(Cells(9) \ (Kept9 \cup Late9)) \o Ascending(Kept9) \o Ascending(Late9)}

InitCarve ==
    /\ N = 9 /\ B = 3
    /\ ValidFull(Solution9, 9, 3)
    /\ \A o \in CarveOrders9 : Len(o) = 81 /\ {o[j] : j \in DOMAIN o} = Cells(9)
    /\ pc = "call"
    /\ SolveIdle
    /\ GenIdle
    /\ SearchIdle
    /\ CallIdle /\ UiIdle

\* generatePuzzle(9, 3) up to its loop
Call_generatePuzzle9 ==
    /\ pc = "call"
    /\ entry' = "generatePuzzle"
    /\ path' = "generatePuzzle"
    /\ EnterGeneratePuzzleWith({Solution9}, CarveOrders9)
    /\ UNCHANGED <<N, B, diff, now, deadline, attempt, best, singles, metrics, started, tried, ret>>
    /\ UNCHANGED <<solveVars, searchVars, callVars, uiVars>>

\* const minClues = N === 4 ? 6 : 34
minCluesOf(n) == IF n = 4 THEN 6 ELSE 34

\* a loop that leaves the last cell of the permutation out
LastVisit_OneEarly == t >= Len(idxs) - 1

\* for (const idx of idxs): the iteration under way is the last
LastVisit == t = Len(idxs)

\* the end of an iteration: the next one, or the return after a break or
\* after the last; puzzle1 is the puzzle the iteration leaves
EndVisit(brk, puzzle1) ==
    IF brk \/ LastVisit
    THEN /\ ret' = [puzzle |-> puzzle1, solution |-> sol]
         /\ pc' = "done"
         /\ t' = t
    ELSE /\ t' = t + 1
         /\ pc' = "generatePuzzle"
         /\ UNCHANGED ret

\* an iteration up to its call of hasUniqueSolution:
\* if (puzzle[idx] === 0) continue; puzzle[idx] = 0; clues--
Visit_generatePuzzle ==
    /\ pc = "generatePuzzle"
    /\ LET idx == idxs[t] IN
       IF puzzle[idx] = 0
       THEN /\ EndVisit(FALSE, puzzle)
            /\ UNCHANGED <<puzzle, clues, p, fn, run, stack, retval>>
       ELSE \E removed \in {[puzzle EXCEPT ![idx] = 0]} :
            /\ puzzle' = removed
            /\ clues' = clues - 1
            /\ p' = removed
            /\ fn' = "hasUniqueSolution"
            /\ run' = SearchStart("hasUniqueSolution", removed, N, B)
            /\ stack' = <<>>
            /\ retval' = FALSE
            /\ pc' = "bt"
            /\ UNCHANGED <<t, ret>>
    /\ UNCHANGED <<N, B, blanks, edits, res, entry, diff, now, deadline, attempt, best,
                   sol, idxs, singles, metrics, started, tried, path>>
    /\ UNCHANGED <<callVars, uiVars>>

\* the iteration from the return of hasUniqueSolution on:
\* if (!hasUniqueSolution(...)) { puzzle[idx] = keep; clues++ }
\* else if (clues <= minClues) break
\* (keep, the value the cell held, is sol[idx]: puzzle is sol with cells cleared)
Resume_generatePuzzle ==
    /\ pc = "ret"
    /\ stack = <<>>
    /\ entry = "generatePuzzle"
    /\ LET idx == idxs[t]
           unique == run.solutions = 1
           puzzle1 == IF unique THEN puzzle ELSE [puzzle EXCEPT ![idx] = sol[idx]]
           clues1 == IF unique THEN clues ELSE clues + 1
           brk == unique /\ clues1 <= minCluesOf(N)
       IN  /\ puzzle' = puzzle1
           /\ clues' = clues1
           /\ EndVisit(brk, puzzle1)
    /\ UNCHANGED <<N, B, entry, diff, now, deadline, attempt, best, sol, idxs,
                   singles, metrics, started, tried, path>>
    /\ UNCHANGED <<solveVars, searchVars, callVars, uiVars>>

NextCarve ==
    \/ Call_generatePuzzle9
    \/ Visit_generatePuzzle
    \/ Bt_Enter
    \/ Loop_Try
    \/ Loop_Exhausted
    \/ Bt_Return
    \/ Resume_generatePuzzle

SpecCarve == InitCarve /\ [][NextCarve]_vars

Returned(f) == pc = "done" /\ fn = f
OnBoard4 == N = 4 /\ B = 2

\* C3: for a grid whose clues do not conflict, hasUniqueSolution returns true
\* exactly when the grid has one valid completion, whatever the order in which
\* the shuffled candidates are tried.
C3_UniqueIffOneCompletion ==
    (Returned("hasUniqueSolution") /\ OnBoard4 /\ ~HasConflict(p, N, B))
        => (res.unique <=> Cardinality(Completions4(p)) = 1)

\* hasUniqueSolution has answered false for a conflict-free grid with several completions
C3_Witness ==
    /\ Returned("hasUniqueSolution") /\ OnBoard4 /\ ~HasConflict(p, N, B)
    /\ Cardinality(Completions4(p)) > 1
    /\ ~res.unique

\* C4: first-solution mode returns solved = true with a complete valid grid that
\* agrees with every clue when p has a completion, and solved = false with
\* solution = null when it has none.
C4_FirstSolution ==
    (Returned("solveBacktracking") /\ OnBoard4)
        => IF Completions4(p) # {}
           THEN res.solved /\ res.solution # {} /\ res.solution \subseteq Completions4(p)
           ELSE ~res.solved /\ res.solution = {}

\* C4 restricted to grids whose clues do not conflict
C4_ConflictFree ==
    (Returned("solveBacktracking") /\ OnBoard4 /\ ~HasConflict(p, N, B))
        => IF Completions4(p) # {}
           THEN res.solved /\ res.solution # {} /\ res.solution \subseteq Completions4(p)
           ELSE ~res.solved /\ res.solution = {}

\* C5: the N=4, B=2 fixture has exactly one completion, the solver counts one
\* solution for it and solve returns 1234/3412/2143/4321.
C5_Fixture ==
    (pc = "done" /\ OnBoard4 /\ p = Fixture)
        => /\ Completions4(p) = {FixtureSolution}
           /\ fn = "hasUniqueSolution" => res.unique
           /\ fn = "solveBacktracking"
                => res.solved /\ res.solutionsCount = 1 /\ res.solution = {FixtureSolution}

\* C5 (amended): the fixture has exactly two completions, the solver counts two
\* solutions for it (so it is not uniquely solvable) and solve returns one of
\* the two.
C5_FixtureTwoCompletions ==
    (pc = "done" /\ OnBoard4 /\ p = Fixture)
        => /\ Completions4(p) = {FixtureSolution, FixtureSolution2}
           /\ fn = "hasUniqueSolution" => ~res.unique
           /\ fn = "solveBacktracking"
                => /\ res.solved /\ res.solutionsCount = 1
                   /\ res.solution \in {{FixtureSolution}, {FixtureSolution2}}

\* solve has returned the completion of the fixture that the claim does not name
C5_Witness ==
    /\ Returned("solveBacktracking") /\ OnBoard4 /\ p = Fixture
    /\ res.solution = {FixtureSolution2}

\* C9: a call on a grid that already has two equal non-zero values in one unit
\* does not return a solved/solution result (it fails with ConstraintViolation).
C9_ConflictRejected ==
    ~(/\ pc = "done" /\ OnBoard4 /\ HasConflict(p, N, B)
      /\ fn \in {"solveBacktracking", "hasUniqueSolution", "solveBacktrackingWithMetrics"})

\* C10: a call with an incompatible topology (B*B # N, or N <= 0) does not
\* return a result (it is rejected with InvalidTopology at entry).
C10_TopologyRejected ==
    ~(pc = "done" /\ ~ValidTopology(N, B))


-----------------------------------------------------------------------------
(* Claims about the generator (specification SpecGen).  pc = "done" is the  *)
(* state in which the called function has returned ret to its caller.      *)

GenReturned == pc = "done" /\ entry # "none"
InLoopCall == entry = "generatePuzzleForDifficulty" /\ path # "shortcut"

\* C1: every puzzle returned by generatePuzzle or generatePuzzleForDifficulty,
\* on every return path (shortcut, accepted candidate, best near-miss, basic
\* generatePuzzle fallback), has exactly one valid completion.
C1_ReturnedPuzzleUnique ==
    GenReturned => Cardinality(Completions4(ret.puzzle)) = 1

C1_Witness ==
    /\ GenReturned /\ path = "near-miss"
    /\ CountClues(ret.puzzle) < N * N
    /\ Cardinality(Completions4(ret.puzzle)) = 1

\* C2: in every returned {puzzle, solution} pair the solution has no empty
\* cell, each of its rows, columns and boxes holds every digit 1..N once, and
\* every cell of the puzzle is 0 or the solution's digit at that index.
C2_SolutionConsistent ==
    GenReturned =>
        /\ ValidFull(ret.solution, N, B)
        /\ \A i \in Cells(N) : ret.puzzle[i] \in {0, ret.solution[i]}

C2_Witness ==
    /\ GenReturned /\ path = "generatePuzzle"
    /\ ValidFull(ret.solution, N, B)
    /\ \E i \in Cells(N) : ret.puzzle[i] = 0
    /\ \E i \in Cells(N) : ret.puzzle[i] = ret.solution[i]

\* C6: a puzzle returned from inside the attempt loop has a clue count within
\* [minClues, maxClues], is solved by solveWithSingles exactly when the profile
\* requires singles-solvability, and the search-node count measured for it is
\* one the backtracker can report and is at least minSearchNodes.
C6_AcceptedMeetsProfile ==
    (GenReturned /\ path = "accepted") =>
        /\ CountClues(ret.puzzle) >= cfg.minClues
        /\ CountClues(ret.puzzle) <= cfg.maxClues
        /\ solveWithSingles(ret.puzzle, N, B).solved = cfg.requireSinglesSolvable
        /\ metrics >= cfg.minSearchNodes
        /\ \E m \in solveBacktrackingWithMetrics(ret.puzzle, N, B, N) : m.nodes = metrics

C6_Witness ==
    /\ GenReturned /\ path = "accepted"
    /\ cfg.requireSinglesSolvable /\ singles
    /\ metrics >= cfg.minSearchNodes
    /\ CountClues(ret.puzzle) = cfg.minClues

\* C7: generatePuzzleForDifficulty always returns a pair.  When its loop is
\* left without an accepted candidate, a near-miss has been recorded exactly
\* when an attempt ran; the pair returned is an accepted candidate, otherwise
\* the recorded near-miss, otherwise (only when no attempt ran) the result of
\* generatePuzzle; and what is returned is never null.
C7_AlwaysReturnsPair ==
    entry = "generatePuzzleForDifficulty" =>
      /\ pc = "fallback" =>
            /\ best = NoBest <=> started = <<>>
            /\ best # NoBest =>
                  DOMAIN best.puzzle = Cells(N) /\ DOMAIN best.solution = Cells(N)
      /\ pc = "done" =>
            /\ DOMAIN ret.puzzle = Cells(N) /\ DOMAIN ret.solution = Cells(N)
            /\ path \in {"shortcut", "accepted", "near-miss", "fallback generatePuzzle"}
            /\ path = "accepted" => ret = [puzzle |-> puzzle, solution |-> sol]
            /\ path = "near-miss" =>
                  /\ started # <<>> /\ best # NoBest
                  /\ ret = [puzzle |-> best.puzzle, solution |-> best.solution]
            /\ path = "fallback generatePuzzle" => started = <<>> /\ best = NoBest

C7_Witness ==
    /\ GenReturned /\ path = "fallback generatePuzzle"
    /\ started = <<>> /\ now > deadline
    /\ DOMAIN ret.puzzle = Cells(N)

\* C8: the attempt loop starts at most maxTries attempts, every attempt
\* starts at a clock value not past the deadline (the clock value at entry
\* plus maxGenMs), and the clock advances only in the entry step, at attempt
\* starts and in the iterations of the two removal loops.
C8_Budget ==
    /\ [](InLoopCall =>
            /\ Len(started) <= cfg.maxTries
            /\ \A k \in 1 .. Len(started) : started[k] <= deadline)
    /\ [][now' # now => pc \in {"call", "attempt", "carve", "nudge"}]_vars

C8_Witness ==
    /\ InLoopCall /\ pc = "fallback"
    /\ Len(started) = cfg.maxTries
    /\ now > deadline

-----------------------------------------------------------------------------
(* Claims about a running search (specification SpecSearch).                *)

CountingMode == fn = "hasUniqueSolution"
EmptyCount(g) == Cardinality({i \in DOMAIN g : g[i] = 0})

\* C11: in solution-counting mode the counter never exceeds the cutoff 2, and
\* from the moment it is 2 the search assigns nothing: neither the node count
\* nor the working grid changes again.
C11_CountingCutoff ==
    /\ [](CountingMode => run.solutions <= 2)
    /\ [][(CountingMode /\ run.solutions >= 2)
             => (run'.nodes = run.nodes /\ run'.g = run.g)]_vars

C11_Witness ==
    /\ CountingMode /\ pc = "done"
    /\ res.solutionsCount = 2
    /\ B = 2 /\ Cardinality(Completions4(p)) > 2

\* C12: at every point of a search of solveBacktrackingCore or of
\* generateFullSolution, between the calls of assign and unassign, the masks
\* kept incrementally equal the masks computed from scratch from the working
\* grid.
C12_MaskGridAgreement ==
    run.masks = computeMasks(run.g, buildIndexMaps(N, B))

C12_Witness ==
    /\ pc = "loop" /\ Len(stack) >= 2
    /\ Top.v # 0
    /\ run.masks = computeMasks(run.g, buildIndexMaps(N, B))

\* the progress of a search: for each activation inside its loop, outermost
\* first, the number of candidates it has not tried yet; then N + 1 for an
\* activation that is being entered; zeros up to length Len(empties) + 1; and
\* last the position inside the innermost activation
SearchRank ==
    LET E == Len(EmptiesOf(p)) IN
    [k \in 1 .. (E + 2) |->
        IF k <= Len(stack) THEN Cardinality(stack[k].untried)
        ELSE IF k = Len(stack) + 1 /\ pc = "bt" THEN N + 1
        ELSE IF k = E + 2
             THEN (IF pc = "done" THEN 0
                   ELSE 2 * Len(stack) + (IF pc = "ret" THEN 1 ELSE 0))
        ELSE 0]

\* a is before b in the lexicographic order of sequences of equal length
LexLess(a, b) ==
    \E k \in DOMAIN a : a[k] < b[k] /\ \A j \in 1 .. (k - 1) : a[j] = b[j]

\* C13: every search terminates: each statement of bt lowers SearchRank in a
\* well-founded order and no state before the return is without a next
\* statement.  Each activation of bt is entered with one more cell filled
\* than its caller, so the depth never exceeds the number of initially empty
\* cells; and whenever the loop of an activation is about to try its next
\* candidate or to fail, grid and masks are those the activation was entered
\* with.
C13_Terminates ==
    /\ [](/\ Len(stack) <= Len(EmptiesOf(p))
          /\ pc = "bt" => EmptyCount(run.g) = Len(EmptiesOf(p)) - Len(stack)
          /\ pc = "loop" =>
                /\ stack # <<>>
                /\ run.g = Top.saved.g /\ run.masks = Top.saved.masks)
    /\ [][LexLess(SearchRank', SearchRank)]_vars

C13_Witness ==
    /\ pc = "done" /\ fn = "solveBacktracking"
    /\ ~res.solved
    /\ EmptyCount(p) > 0 /\ run.g = p

-----------------------------------------------------------------------------
(* Claims about the board topology (specification SpecTopo).               *)

\* C14: on the 4x4 and 9x9 boards, for every cell i, rcToIndex(ROW_OF[i],
\* COL_OF[i], N) = i, BOX_OF[i] = floor(row / B) * B + floor(col / B) and is a
\* box number 0..N-1, a cell j has the box number of i exactly when it is in
\* boxIndices(i, N, B), and that box holds exactly N cells.
C14_TopologyRoundTrip ==
    pc = "read" =>
        /\ res.back = res.i
        /\ res.row \in 0 .. (N - 1) /\ res.col \in 0 .. (N - 1)
        /\ res.box = (res.row \div B) * B + (res.col \div B)
        /\ res.box \in 0 .. (N - 1)
        /\ (res.boxOfJ = res.box) <=> res.inBoxOfI
        /\ CELLS_IN_BOX(res.box, N, B) = boxIndices(res.i, N, B)
        /\ Cardinality(CELLS_IN_BOX(res.box, N, B)) = N

C14_Witness ==
    /\ pc = "read" /\ N = 9 /\ B = 3
    /\ res.i = 40 /\ res.box = 4 /\ res.back = 40
    /\ res.j = 50 /\ res.inBoxOfI

-----------------------------------------------------------------------------
(* Claims about calls in sequence (specification SpecCalls).                *)

\* C15: solveBacktracking, hasUniqueSolution, solveBacktrackingWithMetrics and
\* solveWithSingles leave every array of the caller, the puzzle argument
\* included, as it was; and the maps a call of solveBacktrackingCore works
\* with, and leaves in MAPS, are those of the (N, B) of that call, whatever
\* MAPS held before.
C15_ArgumentAndCache ==
    /\ [][heap' = heap]_vars
    /\ [](pc = "returned" =>
            /\ heap[res.ref] = p
            /\ fn \in CoreFns => /\ res.maps = buildIndexMaps(N, B)
                                 /\ MAPS = buildIndexMaps(N, B)
            /\ fn = "solveWithSingles" => MAPS = res.before)

C15_Witness ==
    /\ pc = "returned" /\ fn = "solveBacktracking"
    /\ N = 9 /\ res.before = buildIndexMaps(4, 2)
    /\ blanks = 9 /\ res.out.solved /\ res.out.solution = {Full9}
    /\ heap[res.ref] = p

-----------------------------------------------------------------------------
(* Claims about the page (specification SpecPage).                          *)

OnGiven == state.selected \in DOMAIN state.givens /\ state.givens[state.selected] # 0

\* C16: with STRICT_SOLUTION_CHECK on, in every state reached from newGame by
\* placeNumber, eraseCell, hint, undo, redo and restartGameSamePuzzle (and
\* clicks, the notes toggle and the number keys), every non-zero cell of
\* state.grid holds the digit state.solution has at that index.
C16_OnlyCorrectDigits ==
    \A i \in DOMAIN state.grid : state.grid[i] # 0 => state.grid[i] = state.solution[i]

C16_Witness ==
    /\ log.last = "redo" /\ log.prev = "undo"
    /\ state.mistakes > 0
    /\ \E i \in DOMAIN state.grid : state.givens[i] = 0 /\ state.grid[i] = state.solution[i]

\* C17: a cell that is non-zero in givens holds that given in grid in every
\* state, and placeNumber and eraseCell with a given cell selected change
\* neither grid, notes, score, mistakes nor the undo and redo stacks.
C17_GivensImmutable ==
    /\ [](\A i \in DOMAIN state.givens :
              state.givens[i] # 0 => state.grid[i] = state.givens[i])
    /\ [][(OnGiven /\ log'.last \in {"placeNumber", "eraseCell"}) =>
             /\ state'.grid = state.grid
             /\ state'.notes = state.notes
             /\ state'.score = state.score
             /\ state'.mistakes = state.mistakes
             /\ state'.undoStack = state.undoStack
             /\ state'.redoStack = state.redoStack]_vars

C17_Witness ==
    /\ log.last = "placeNumber" /\ OnGiven
    /\ state.highlightNumber \notin {NoDigit, state.grid[state.selected]}
    /\ \E i \in DOMAIN state.grid : state.givens[i] = 0 /\ state.grid[i] # 0

\* C18: when the cell a hint targeted is selected and empty and the player
\* places its correct value, hintTarget does not designate that cell afterwards.
C18_HintClearedByCorrectFill ==
    [][(/\ log'.last \in {"placeNumber", "numberKey"}
        /\ state.selected # NoCell
        /\ state.hintTarget = state.selected
        /\ state.grid[state.selected] = 0
        /\ state'.grid[state.selected] = state.solution[state.selected])
       => state'.hintTarget # state.selected]_vars

C20_NotesOnlyInEmptyCells ==
    \A i \in DOMAIN state.notes : state.grid[i] = 0

Complete(s) ==
    /\ s.grid # NoGrid
    /\ \A i \in DOMAIN s.grid : s.grid[i] # 0 /\ s.grid[i] = s.solution[i]

\* the step wrote a digit into the selected cell: placeNumber got past its
\* guards with notes mode off (a snapshot was pushed) and counted no mistake
Placed ==
    /\ log'.last \in {"placeNumber", "numberKey"}
    /\ ~state.notesMode
    /\ Len(state'.undoStack) = Len(state.undoStack) + 1
    /\ state'.mistakes = state.mistakes

\* C22: a placement that leaves the grid complete and valid processes the win
\* in that same step (timer stopped, score + 100 on top of the placement's 10,
\* totalScore raised by the resulting score, overlay shown), and no step
\* processes a win (raises totalScore or shows an overlay) unless the grid
\* it leaves is complete.
C22_WinInSameStep ==
    [][/\ (Placed /\ Complete(state'))
          => /\ ~state'.timerId
             /\ state'.score = state.score + 10 + 100
             /\ state'.totalScore = state.totalScore + state'.score
             /\ state'.overlays = state.overlays + 1
       /\ (state'.totalScore > state.totalScore \/ state'.overlays > state.overlays)
          => Complete(state')]_vars

C22_Witness ==
    /\ log.last \in {"placeNumber", "numberKey"}
    /\ Complete(state)
    /\ state.overlays = 1
    /\ ~state.timerId
    /\ state.totalScore = state.score
    /\ state.score > 100

\* C23: between one newGame and the next at most MAX_HINTS hints are granted,
\* and a hint request made with hintsUsed at the cap changes no state.
C23_HintCapPerPuzzle ==
    /\ [](log.granted <= MAX_HINTS)
    /\ [][(log'.last = "hint" /\ state.hintsUsed >= MAX_HINTS)
          => state' = state]_vars

\* the digit num is in the grid of s as many times as the board is wide
Exhausted(s, num) ==
    Cardinality({i \in DOMAIN s.grid : s.grid[i] = num}) >= s.size

\* C25: no digit is in state.grid more than size times, and placeNumber(num)
\* on an editable selected cell, notes mode off, with no num remaining and the
\* cell not already holding num, changes nothing but highlightNumber.
C25_ExhaustedDigitBlocked ==
    /\ [](state.grid # NoGrid =>
            \A v \in 1..state.size :
                Cardinality({i \in DOMAIN state.grid : state.grid[i] = v}) <= state.size)
    /\ [][(/\ log'.last \in {"placeNumber", "numberKey"}
           /\ ~state.gameOver
           /\ state.selected # NoCell
           /\ state.givens[state.selected] = 0
           /\ ~state.notesMode
           /\ Exhausted(state, log'.digit)
           /\ state.grid[state.selected] # log'.digit)
          => state' = [state EXCEPT !.highlightNumber = state'.highlightNumber]]_vars

\* an exhausted digit was typed into an empty selected cell
C25_Witness ==
    /\ log.last = "placeNumber"
    /\ state.selected # NoCell
    /\ state.grid[state.selected] = 0
    /\ ~state.notesMode /\ ~state.gameOver
    /\ Exhausted(state, log.digit)
    /\ state.highlightNumber = log.digit
    /\ log.events = 1

\* the step is a rejected placement: placeNumber counted a mistake
Rejected ==
    /\ log'.last \in {"placeNumber", "numberKey"}
    /\ state'.mistakes # state.mistakes

C30_FiveMistakesEndGame ==
    /\ [](state.mistakes >= 5 => state.gameOver)
    /\ [](state.mistakes <= 5)
    /\ [][state.mistakes >= 5 => ~Placed]_vars

\* C24: at most one animation-frame callback of a build is pending, a
\* callback that runs finds its token equal to buildToken, and isBuilding is
\* false once it has run.
C24_NoOverlappingBuilds ==
    /\ [](Len(frames) <= 1)
    /\ [][log'.last = "frame" /\ frames' # frames
          => Head(frames) = buildToken /\ ~isBuilding']_vars

\* the callback of a second build has run, after clicks made while the
\* first build was pending
C24_Witness ==
    /\ pc = "build"
    /\ log.last = "frame"
    /\ buildToken >= 2
    /\ log.events >= 3
    /\ ~isBuilding /\ frames = <<>>

\* the digits no cell of the row, column or box of cell i holds in grid g
FreeDigits(g, i) ==
    LET peers == UNION {u \in Units(N, B) : i \in u}
    IN  {v \in 1 .. N : \A j \in peers : g[j] # v}

\* the empty cells of g that have the fewest free digits
FewestCells(g) ==
    LET open == {i \in DOMAIN g : g[i] = 0}
    IN  {i \in open : \A j \in open :
            Cardinality(FreeDigits(g, i)) <= Cardinality(FreeDigits(g, j))}

\* C26: when bt() is entered on an incomplete grid, the cell it goes on with
\* is the first, in scan order, of the empty cells with the fewest
\* candidates, and when some empty cell has no candidate it returns false
\* without assigning anything.
C26_SelectMRV ==
    [][(/\ pc = "bt" /\ ~InGenerator
        /\ \E i \in DOMAIN run.g : run.g[i] = 0)
       => IF \E i \in DOMAIN run.g : run.g[i] = 0 /\ FreeDigits(run.g, i) = {}
          THEN pc' = "ret" /\ retval' = FALSE /\ run' = run /\ stack' = stack
          ELSE /\ pc' = "loop"
               /\ stack' = Append(stack, stack'[Len(stack')])
               /\ stack'[Len(stack')].i \in FewestCells(run.g)
               /\ \A j \in FewestCells(run.g) : stack'[Len(stack')].i <= j]_vars

\* the rejected attempts that ended inside the clue band
InBandTried == {k \in 1 .. Len(tried) : tried[k].inBand}

\* C27: the pair the near-miss fallback returns is, when some rejected
\* attempt ended inside the clue band, an in-band attempt with the highest
\* node count, and otherwise an attempt whose clue count is closest to the
\* midpoint of the band.
C27_BestNearMiss ==
    (pc = "done" /\ path = "near-miss")
    => LET mid == (cfg.minClues + cfg.maxClues) \div 2 IN
       IF InBandTried # {}
       THEN \E k \in InBandTried :
              /\ ret = [puzzle |-> tried[k].puzzle, solution |-> tried[k].solution]
              /\ \A j \in InBandTried : tried[j].nodes <= tried[k].nodes
       ELSE \E k \in 1 .. Len(tried) :
              /\ ret = [puzzle |-> tried[k].puzzle, solution |-> tried[k].solution]
              /\ \A j \in 1 .. Len(tried) :
                    Abs(tried[k].clues - mid) <= Abs(tried[j].clues - mid)

\* an in-band miss was followed by an out-of-band attempt and is returned
C27_Witness ==
    /\ pc = "done" /\ path = "near-miss"
    /\ Len(tried) = 2
    /\ tried[1].inBand /\ ~tried[2].inBand
    /\ ret.puzzle = tried[1].puzzle

\* the floor of the removal loop that is running
CarveFloor == IF pc = "generatePuzzle" THEN (IF N = 4 THEN 6 ELSE 34) ELSE cfg.minClues

\* C28: while a removal loop runs and when it has ended the tracked counter
\* is the number of non-zero cells and is not below the floor (6 on the 4x4
\* board in generatePuzzle, cfg.minClues in the two loops of an attempt), and
\* the step that accepts the removal reaching the floor leaves its loop.
C28_CarveFloor ==
    /\ [](pc \in {"generatePuzzle", "carve", "nudge", "classify"}
          => clues = CountClues(puzzle) /\ clues >= CarveFloor)
    /\ [](pc = "done" => CountClues(ret.puzzle) >=
            (IF path \in {"accepted", "near-miss"} THEN cfg.minClues ELSE 6))
    /\ [][(pc \in {"generatePuzzle", "carve", "nudge"}
           /\ clues' < clues /\ clues' <= CarveFloor)
          => pc' # pc]_vars

\* the second loop of an attempt ended on the floor the first had reached
C28_Witness ==
    /\ pc = "classify"
    /\ clues = cfg.minClues
    /\ CountClues(puzzle) = cfg.minClues
    /\ cfg.minClues < cfg.maxClues

\* C31: on a conflict-free puzzle every value solveWithSingles places goes in
\* an empty cell, is held by no cell of its row, column or box at that moment
\* and is the value every completion of the puzzle has there; it makes at most
\* one step per empty cell; and when it reports solved the puzzle has exactly
\* one completion, solveBacktracking solves it and hasUniqueSolution is true.
C31_SinglesSound ==
    /\ [][(pc = "singles" /\ pc' = "singles" /\ ~HasConflict(p, N, B))
          => /\ res.g[res'.move.idx] = 0
             /\ res'.move.value \in FreeDigits(res.g, res'.move.idx)
             /\ \A s \in Completions4(p) : s[res'.move.idx] = res'.move.value]_vars
    /\ []((fn = "solveWithSingles" /\ ~HasConflict(p, N, B))
          => res.steps <= EmptyCount(p))
    /\ []((fn = "solveWithSingles" /\ pc = "done" /\ ~HasConflict(p, N, B) /\ res.solved)
          => /\ Cardinality(Completions4(p)) = 1
             /\ \A r \in solveBacktracking(p, N, B, FALSE, N) : r.solved
             /\ hasUniqueSolution(p, N, B, N) = {TRUE})

\* the singles solver has filled ten cells or more and reports solved
C31_Witness ==
    /\ fn = "solveWithSingles" /\ pc = "done"
    /\ res.solved
    /\ res.steps = EmptyCount(p)
    /\ res.steps >= 10

RECURSIVE Pow2(_)
Pow2(k) == IF k = 0 THEN 1 ELSE 2 * Pow2(k - 1)

RECURSIVE MaskValue(_)
\* the integer whose bit v - 1 is set for every v of the mask m
MaskValue(m) ==
    IF m = {} THEN 0
    ELSE LET v == CHOOSE x \in m : TRUE IN Pow2(v - 1) + MaskValue(m \ {v})

\* the digits no cell of the row, column or box of cell i of p holds
LegalDigits(i) ==
    {v \in 1 .. N : \A u \in Units(N, B) : i \in u => \A j \in u : p[j] # v}

\* C32: for an empty cell i the digits of candidateMask(i, computeMasks(g))
\* are the digits candidatesFor(i, g, N, B) lists, the mask has no bit
\* outside FULL_MASK = 2^N - 1, and it is 0 exactly when no digit is legal in
\* the cell.
C32_EnginesAgree ==
    (pc = "masks" /\ fn = "candidateMask")
    => /\ res.digits = res.cand
       /\ res.cm \subseteq FULL_MASK(N)
       /\ MaskValue(res.cm) \in 0 .. (Pow2(N) - 1)
       /\ MaskValue(FULL_MASK(N)) = Pow2(N) - 1
       /\ (MaskValue(res.cm) = 0) <=> (LegalDigits(res.i) = {})

\* a 9x9 cell in which some digits, but not all, are candidates
C32_Witness ==
    /\ pc = "masks" /\ fn = "candidateMask"
    /\ N = 9
    /\ Cardinality(res.cand) >= 2
    /\ Cardinality(res.cand) < 9
    /\ res.digits = res.cand

\* g with the cells of the function e overwritten by its values
Patched(g, e) == [i \in DOMAIN g |-> IF i \in DOMAIN e THEN e[i] ELSE g[i]]

\* full grids other than Solution9, compared below with the puzzles of the run
Rivals9 ==
    {Patched(Solution9, e) : e \in {
      (0 :> 1 @@ 1 :> 4 @@ 2 :> 5 @@ 3 :> 9 @@ 4 :> 2 @@ 6 :> 3 @@ 9 :> 3
       @@ 17 :> 1 @@ 19 :> 7 @@ 20 :> 2 @@ 29 :> 1 @@ 32 :> 2 @@ 35 :> 3
       @@ 46 :> 2 @@ 49 :> 3 @@ 51 :> 1 @@ 55 :> 5 @@ 56 :> 7 @@ 57 :> 2
       @@ 58 :> 1 @@ 59 :> 4 @@ 65 :> 4 @@ 66 :> 5 @@ 67 :> 9 @@ 68 :> 3
       @@ 73 :> 1 @@ 76 :> 7),
      (3 :> 7 @@ 5 :> 2 @@ 48 :> 2 @@ 49 :> 7 @@ 58 :> 2 @@ 59 :> 7),
      (0 :> 8 @@ 1 :> 4 @@ 2 :> 2 @@ 3 :> 1 @@ 6 :> 3 @@ 7 :> 5 @@ 9 :> 3
       @@ 17 :> 1 @@ 18 :> 1 @@ 19 :> 5 @@ 23 :> 2 @@ 25 :> 8 @@ 29 :> 1
       @@ 30 :> 2 @@ 32 :> 8 @@ 35 :> 3 @@ 39 :> 9 @@ 41 :> 1 @@ 46 :> 2
       @@ 48 :> 6 @@ 49 :> 7 @@ 50 :> 3 @@ 51 :> 1 @@ 55 :> 1 @@ 56 :> 5
       @@ 57 :> 7 @@ 58 :> 2 @@ 59 :> 4 @@ 65 :> 4 @@ 66 :> 5 @@ 68 :> 9
       @@ 75 :> 8 @@ 77 :> 6),
      (0 :> 2 @@ 1 :> 6 @@ 3 :> 1 @@ 6 :> 5 @@ 8 :> 3 @@ 9 :> 3 @@ 10 :> 1
       @@ 17 :> 6 @@ 19 :> 5 @@ 23 :> 2 @@ 25 :> 1 @@ 29 :> 1 @@ 30 :> 2
       @@ 35 :> 8 @@ 39 :> 8 @@ 42 :> 1 @@ 46 :> 2 @@ 48 :> 6 @@ 49 :> 7
       @@ 50 :> 1 @@ 56 :> 5 @@ 57 :> 7 @@ 58 :> 2 @@ 59 :> 8 @@ 62 :> 1
       @@ 63 :> 1 @@ 65 :> 2 @@ 70 :> 5 @@ 75 :> 5 @@ 77 :> 6 @@ 78 :> 8),
      (1 :> 4 @@ 2 :> 2 @@ 3 :> 1 @@ 6 :> 5 @@ 9 :> 6 @@ 10 :> 9 @@ 11 :> 1
       @@ 19 :> 5 @@ 23 :> 2 @@ 25 :> 1 @@ 28 :> 2 @@ 29 :> 9 @@ 39 :> 9
       @@ 41 :> 1 @@ 54 :> 2 @@ 55 :> 7 @@ 56 :> 5 @@ 57 :> 6 @@ 58 :> 1
       @@ 59 :> 4 @@ 63 :> 1 @@ 65 :> 4 @@ 66 :> 2 @@ 68 :> 9 @@ 70 :> 5
       @@ 73 :> 6 @@ 75 :> 5 @@ 76 :> 7 @@ 78 :> 1),
      (1 :> 2 @@ 2 :> 5 @@ 3 :> 4 @@ 9 :> 6 @@ 10 :> 4 @@ 12 :> 1 @@ 19 :> 7
       @@ 20 :> 1 @@ 23 :> 2 @@ 39 :> 9 @@ 41 :> 1 @@ 48 :> 2 @@ 49 :> 7
       @@ 54 :> 1 @@ 55 :> 5 @@ 56 :> 7 @@ 57 :> 6 @@ 58 :> 2 @@ 59 :> 4
       @@ 65 :> 4 @@ 66 :> 5 @@ 68 :> 9 @@ 73 :> 6 @@ 75 :> 7),
      (1 :> 4 @@ 2 :> 5 @@ 9 :> 8 @@ 13 :> 1 @@ 18 :> 1 @@ 23 :> 8 @@ 39 :> 9
       @@ 41 :> 1 @@ 48 :> 6 @@ 49 :> 7 @@ 50 :> 2 @@ 55 :> 5 @@ 57 :> 7
       @@ 58 :> 2 @@ 59 :> 4 @@ 65 :> 4 @@ 66 :> 5 @@ 68 :> 9 @@ 75 :> 1
       @@ 76 :> 8 @@ 77 :> 6),
      (1 :> 4 @@ 2 :> 1 @@ 6 :> 5 @@ 9 :> 6 @@ 10 :> 5 @@ 14 :> 1 @@ 23 :> 5
       @@ 25 :> 1 @@ 54 :> 2 @@ 55 :> 7 @@ 56 :> 5 @@ 57 :> 6 @@ 58 :> 1
       @@ 59 :> 4 @@ 63 :> 1 @@ 65 :> 4 @@ 68 :> 2 @@ 70 :> 5 @@ 73 :> 6
       @@ 75 :> 5 @@ 76 :> 7 @@ 78 :> 1),
      (1 :> 4 @@ 2 :> 5 @@ 3 :> 1 @@ 6 :> 2 @@ 9 :> 6 @@ 10 :> 2 @@ 15 :> 1
       @@ 19 :> 7 @@ 20 :> 1 @@ 23 :> 2 @@ 39 :> 9 @@ 41 :> 1 @@ 48 :> 2
       @@ 49 :> 7 @@ 54 :> 1 @@ 55 :> 5 @@ 56 :> 7 @@ 57 :> 6 @@ 58 :> 2
       @@ 59 :> 4 @@ 65 :> 4 @@ 66 :> 5 @@ 68 :> 9 @@ 73 :> 6 @@ 75 :> 7),
      (1 :> 4 @@ 2 :> 1 @@ 6 :> 5 @@ 9 :> 6 @@ 10 :> 7 @@ 16 :> 1 @@ 20 :> 5
       @@ 25 :> 7 @@ 54 :> 2 @@ 55 :> 5 @@ 56 :> 7 @@ 57 :> 6 @@ 58 :> 1
       @@ 59 :> 4 @@ 63 :> 1 @@ 65 :> 4 @@ 68 :> 2 @@ 70 :> 5 @@ 73 :> 6
       @@ 75 :> 5 @@ 76 :> 7 @@ 78 :> 1),
      (1 :> 2 @@ 3 :> 1 @@ 6 :> 5 @@ 19 :> 5 @@ 21 :> 2 @@ 23 :> 3 @@ 25 :> 1
       @@ 30 :> 3 @@ 32 :> 1 @@ 35 :> 8 @@ 39 :> 8 @@ 42 :> 1 @@ 48 :> 6
       @@ 49 :> 7 @@ 50 :> 2 @@ 56 :> 5 @@ 57 :> 7 @@ 58 :> 2 @@ 59 :> 8
       @@ 62 :> 1 @@ 65 :> 1 @@ 70 :> 5 @@ 75 :> 5 @@ 77 :> 6 @@ 78 :> 8),
      (0 :> 1 @@ 1 :> 4 @@ 2 :> 5 @@ 6 :> 3 @@ 9 :> 3 @@ 17 :> 1 @@ 19 :> 7
       @@ 20 :> 2 @@ 22 :> 1 @@ 23 :> 6 @@ 29 :> 1 @@ 32 :> 2 @@ 35 :> 3
       @@ 39 :> 9 @@ 41 :> 1 @@ 46 :> 2 @@ 48 :> 6 @@ 49 :> 7 @@ 50 :> 3
       @@ 51 :> 1 @@ 55 :> 5 @@ 56 :> 7 @@ 57 :> 1 @@ 58 :> 2 @@ 59 :> 4
       @@ 65 :> 4 @@ 66 :> 5 @@ 68 :> 9 @@ 73 :> 1 @@ 75 :> 7 @@ 76 :> 6),
      (1 :> 2 @@ 2 :> 5 @@ 3 :> 1 @@ 6 :> 4 @@ 19 :> 4 @@ 23 :> 2 @@ 24 :> 1
       @@ 39 :> 9 @@ 41 :> 1 @@ 48 :> 2 @@ 49 :> 7 @@ 55 :> 5 @@ 57 :> 7
       @@ 58 :> 2 @@ 59 :> 4 @@ 65 :> 4 @@ 66 :> 5 @@ 68 :> 9),
      (1 :> 4 @@ 2 :> 2 @@ 3 :> 1 @@ 6 :> 5 @@ 9 :> 6 @@ 10 :> 1 @@ 19 :> 5
       @@ 23 :> 2 @@ 25 :> 9 @@ 26 :> 1 @@ 28 :> 2 @@ 29 :> 1 @@ 35 :> 9
       @@ 39 :> 9 @@ 41 :> 1 @@ 46 :> 9 @@ 52 :> 1 @@ 54 :> 2 @@ 55 :> 7
       @@ 56 :> 5 @@ 57 :> 6 @@ 58 :> 1 @@ 59 :> 4 @@ 63 :> 1 @@ 65 :> 4
       @@ 66 :> 2 @@ 68 :> 9 @@ 70 :> 5 @@ 73 :> 6 @@ 75 :> 5 @@ 76 :> 7
       @@ 78 :> 1),
      (0 :> 5 @@ 1 :> 4 @@ 2 :> 2 @@ 3 :> 1 @@ 6 :> 3 @@ 9 :> 3 @@ 17 :> 1
       @@ 19 :> 1 @@ 23 :> 2 @@ 27 :> 1 @@ 29 :> 5 @@ 30 :> 2 @@ 32 :> 8
       @@ 35 :> 3 @@ 39 :> 9 @@ 41 :> 1 @@ 46 :> 2 @@ 48 :> 6 @@ 49 :> 7
       @@ 50 :> 3 @@ 51 :> 1 @@ 55 :> 5 @@ 57 :> 7 @@ 58 :> 2 @@ 59 :> 4
       @@ 65 :> 4 @@ 66 :> 5 @@ 68 :> 9 @@ 75 :> 8 @@ 77 :> 6),
      (1 :> 4 @@ 2 :> 2 @@ 3 :> 1 @@ 6 :> 5 @@ 9 :> 6 @@ 10 :> 1 @@ 19 :> 5
       @@ 23 :> 2 @@ 25 :> 1 @@ 29 :> 1 @@ 30 :> 2 @@ 31 :> 3 @@ 32 :> 4
       @@ 35 :> 8 @@ 39 :> 8 @@ 42 :> 1 @@ 46 :> 2 @@ 48 :> 6 @@ 49 :> 7
       @@ 50 :> 1 @@ 54 :> 2 @@ 55 :> 6 @@ 56 :> 5 @@ 57 :> 7 @@ 58 :> 4
       @@ 59 :> 8 @@ 62 :> 1 @@ 63 :> 1 @@ 65 :> 4 @@ 67 :> 2 @@ 68 :> 3
       @@ 70 :> 5 @@ 75 :> 5 @@ 77 :> 6 @@ 78 :> 8),
      (1 :> 2 @@ 3 :> 1 @@ 6 :> 5 @@ 19 :> 5 @@ 23 :> 2 @@ 25 :> 1 @@ 30 :> 7
       @@ 32 :> 1 @@ 33 :> 3 @@ 35 :> 8 @@ 39 :> 8 @@ 42 :> 1 @@ 48 :> 6
       @@ 50 :> 3 @@ 51 :> 7 @@ 56 :> 5 @@ 57 :> 2 @@ 59 :> 8 @@ 62 :> 1
       @@ 65 :> 1 @@ 70 :> 5 @@ 75 :> 5 @@ 77 :> 6 @@ 78 :> 8),
      (1 :> 2 @@ 3 :> 1 @@ 6 :> 5 @@ 19 :> 5 @@ 23 :> 2 @@ 25 :> 1 @@ 28 :> 1
       @@ 30 :> 6 @@ 34 :> 9 @@ 35 :> 8 @@ 39 :> 8 @@ 42 :> 1 @@ 46 :> 9
       @@ 48 :> 2 @@ 49 :> 7 @@ 50 :> 1 @@ 52 :> 6 @@ 56 :> 5 @@ 57 :> 7
       @@ 58 :> 2 @@ 59 :> 8 @@ 62 :> 1 @@ 65 :> 1 @@ 70 :> 5 @@ 75 :> 5
       @@ 77 :> 6 @@ 78 :> 8),
      (1 :> 2 @@ 3 :> 1 @@ 6 :> 5 @@ 9 :> 6 @@ 10 :> 1 @@ 19 :> 5 @@ 23 :> 2
       @@ 25 :> 1 @@ 36 :> 1 @@ 39 :> 7 @@ 46 :> 7 @@ 48 :> 2 @@ 49 :> 1
       @@ 54 :> 7 @@ 56 :> 5 @@ 57 :> 6 @@ 58 :> 2 @@ 59 :> 1 @@ 65 :> 1
       @@ 70 :> 5 @@ 73 :> 6 @@ 75 :> 5 @@ 76 :> 7 @@ 78 :> 1),
      (0 :> 1 @@ 1 :> 4 @@ 2 :> 5 @@ 6 :> 3 @@ 9 :> 3 @@ 17 :> 1 @@ 28 :> 1
       @@ 30 :> 9 @@ 32 :> 8 @@ 35 :> 3 @@ 37 :> 9 @@ 41 :> 3 @@ 46 :> 3
       @@ 48 :> 6 @@ 49 :> 7 @@ 50 :> 2 @@ 51 :> 1 @@ 55 :> 5 @@ 57 :> 7
       @@ 58 :> 2 @@ 59 :> 4 @@ 65 :> 4 @@ 66 :> 5 @@ 68 :> 9 @@ 75 :> 8
       @@ 77 :> 6),
      (1 :> 4 @@ 2 :> 5 @@ 9 :> 6 @@ 10 :> 1 @@ 38 :> 1 @@ 39 :> 9 @@ 41 :> 6
       @@ 46 :> 6 @@ 48 :> 1 @@ 49 :> 7 @@ 50 :> 2 @@ 54 :> 1 @@ 55 :> 5
       @@ 56 :> 6 @@ 57 :> 7 @@ 58 :> 2 @@ 59 :> 4 @@ 65 :> 4 @@ 66 :> 5
       @@ 68 :> 9),
      (1 :> 2 @@ 3 :> 1 @@ 6 :> 5 @@ 19 :> 5 @@ 23 :> 2 @@ 25 :> 1 @@ 39 :> 5
       @@ 40 :> 1 @@ 48 :> 2 @@ 49 :> 7 @@ 56 :> 5 @@ 57 :> 7 @@ 58 :> 2
       @@ 59 :> 1 @@ 65 :> 1 @@ 70 :> 5 @@ 76 :> 5 @@ 78 :> 1),
      (1 :> 4 @@ 2 :> 2 @@ 3 :> 1 @@ 6 :> 5 @@ 19 :> 7 @@ 20 :> 5 @@ 23 :> 2
       @@ 25 :> 1 @@ 29 :> 1 @@ 35 :> 2 @@ 39 :> 2 @@ 44 :> 1 @@ 46 :> 2
       @@ 49 :> 1 @@ 55 :> 1 @@ 56 :> 7 @@ 58 :> 2 @@ 59 :> 4 @@ 65 :> 4
       @@ 68 :> 1 @@ 70 :> 5 @@ 73 :> 5 @@ 76 :> 7 @@ 78 :> 1),
      (1 :> 2 @@ 3 :> 1 @@ 6 :> 5 @@ 9 :> 6 @@ 10 :> 1 @@ 19 :> 5 @@ 23 :> 2
       @@ 25 :> 1 @@ 29 :> 1 @@ 30 :> 2 @@ 35 :> 8 @@ 39 :> 8 @@ 42 :> 1
       @@ 45 :> 2 @@ 46 :> 4 @@ 48 :> 6 @@ 49 :> 7 @@ 50 :> 1 @@ 54 :> 4
       @@ 55 :> 6 @@ 56 :> 5 @@ 57 :> 7 @@ 58 :> 2 @@ 59 :> 8 @@ 62 :> 1
       @@ 63 :> 1 @@ 65 :> 2 @@ 70 :> 5 @@ 75 :> 5 @@ 77 :> 6 @@ 78 :> 8),
      (0 :> 1 @@ 1 :> 4 @@ 2 :> 5 @@ 6 :> 3 @@ 9 :> 3 @@ 17 :> 1 @@ 29 :> 8
       @@ 30 :> 1 @@ 32 :> 2 @@ 35 :> 3 @@ 39 :> 9 @@ 41 :> 8 @@ 42 :> 1
       @@ 47 :> 2 @@ 48 :> 6 @@ 49 :> 7 @@ 50 :> 3 @@ 51 :> 8 @@ 55 :> 5
       @@ 57 :> 7 @@ 58 :> 2 @@ 59 :> 4 @@ 65 :> 4 @@ 66 :> 5 @@ 68 :> 9
       @@ 75 :> 8 @@ 77 :> 6),
      (0 :> 1 @@ 1 :> 4 @@ 2 :> 5 @@ 6 :> 3 @@ 9 :> 3 @@ 17 :> 1 @@ 30 :> 1
       @@ 35 :> 8 @@ 39 :> 9 @@ 41 :> 8 @@ 42 :> 1 @@ 48 :> 6 @@ 49 :> 7
       @@ 50 :> 2 @@ 51 :> 5 @@ 53 :> 3 @@ 55 :> 7 @@ 57 :> 8 @@ 58 :> 2
       @@ 59 :> 4 @@ 62 :> 5 @@ 65 :> 4 @@ 66 :> 5 @@ 68 :> 9 @@ 73 :> 5
       @@ 75 :> 7 @@ 77 :> 6 @@ 78 :> 8),
      (0 :> 2 @@ 1 :> 4 @@ 2 :> 5 @@ 3 :> 1 @@ 6 :> 3 @@ 9 :> 3 @@ 17 :> 1
       @@ 19 :> 1 @@ 23 :> 2 @@ 29 :> 1 @@ 30 :> 2 @@ 32 :> 8 @@ 35 :> 3
       @@ 39 :> 9 @@ 41 :> 1 @@ 46 :> 2 @@ 48 :> 6 @@ 49 :> 7 @@ 50 :> 3
       @@ 51 :> 9 @@ 52 :> 1 @@ 55 :> 5 @@ 56 :> 4 @@ 57 :> 7 @@ 58 :> 2
       @@ 59 :> 9 @@ 60 :> 1 @@ 63 :> 1 @@ 65 :> 2 @@ 66 :> 5 @@ 70 :> 9
       @@ 75 :> 8 @@ 77 :> 6),
      (0 :> 2 @@ 1 :> 4 @@ 2 :> 5 @@ 3 :> 1 @@ 6 :> 3 @@ 9 :> 3 @@ 17 :> 1
       @@ 19 :> 1 @@ 23 :> 2 @@ 29 :> 1 @@ 30 :> 2 @@ 32 :> 8 @@ 35 :> 3
       @@ 39 :> 9 @@ 41 :> 1 @@ 46 :> 2 @@ 48 :> 6 @@ 49 :> 7 @@ 50 :> 3
       @@ 51 :> 1 @@ 55 :> 5 @@ 56 :> 2 @@ 57 :> 7 @@ 58 :> 3 @@ 59 :> 4
       @@ 61 :> 1 @@ 63 :> 1 @@ 65 :> 4 @@ 66 :> 5 @@ 67 :> 2 @@ 68 :> 9
       @@ 70 :> 3 @@ 75 :> 8 @@ 77 :> 6),
      (0 :> 2 @@ 3 :> 1 @@ 6 :> 3 @@ 9 :> 3 @@ 17 :> 1 @@ 18 :> 1 @@ 19 :> 8
       @@ 23 :> 2 @@ 29 :> 1 @@ 30 :> 2 @@ 32 :> 8 @@ 35 :> 3 @@ 39 :> 9
       @@ 41 :> 1 @@ 46 :> 2 @@ 48 :> 6 @@ 49 :> 7 @@ 50 :> 3 @@ 51 :> 1
       @@ 55 :> 1 @@ 56 :> 5 @@ 57 :> 7 @@ 58 :> 2 @@ 59 :> 4 @@ 63 :> 8
       @@ 64 :> 4 @@ 65 :> 2 @@ 66 :> 5 @@ 68 :> 9 @@ 75 :> 8 @@ 77 :> 6),
      (0 :> 1 @@ 1 :> 4 @@ 2 :> 5 @@ 6 :> 3 @@ 9 :> 3 @@ 17 :> 1 @@ 19 :> 7
       @@ 20 :> 2 @@ 29 :> 1 @@ 32 :> 2 @@ 35 :> 3 @@ 46 :> 2 @@ 48 :> 6
       @@ 49 :> 7 @@ 50 :> 3 @@ 51 :> 1 @@ 55 :> 1 @@ 56 :> 7 @@ 58 :> 2
       @@ 59 :> 4 @@ 65 :> 4 @@ 68 :> 6 @@ 69 :> 5 @@ 73 :> 5 @@ 75 :> 7
       @@ 78 :> 6),
      (1 :> 4 @@ 2 :> 2 @@ 3 :> 1 @@ 6 :> 5 @@ 19 :> 5 @@ 23 :> 2 @@ 25 :> 1
       @@ 29 :> 1 @@ 30 :> 2 @@ 35 :> 8 @@ 39 :> 9 @@ 41 :> 8 @@ 42 :> 1
       @@ 46 :> 2 @@ 48 :> 6 @@ 49 :> 7 @@ 50 :> 1 @@ 55 :> 1 @@ 56 :> 5
       @@ 57 :> 8 @@ 58 :> 2 @@ 59 :> 4 @@ 62 :> 7 @@ 65 :> 4 @@ 66 :> 7
       @@ 68 :> 9 @@ 70 :> 5 @@ 71 :> 1 @@ 75 :> 5 @@ 77 :> 6 @@ 78 :> 8),
      (0 :> 2 @@ 1 :> 4 @@ 2 :> 5 @@ 3 :> 1 @@ 6 :> 3 @@ 9 :> 3 @@ 17 :> 1
       @@ 19 :> 1 @@ 23 :> 2 @@ 29 :> 1 @@ 30 :> 2 @@ 32 :> 8 @@ 35 :> 3
       @@ 39 :> 9 @@ 41 :> 1 @@ 46 :> 2 @@ 48 :> 6 @@ 49 :> 7 @@ 50 :> 3
       @@ 51 :> 1 @@ 54 :> 1 @@ 55 :> 5 @@ 56 :> 4 @@ 57 :> 7 @@ 58 :> 2
       @@ 59 :> 6 @@ 63 :> 9 @@ 65 :> 2 @@ 66 :> 5 @@ 72 :> 6 @@ 75 :> 8
       @@ 77 :> 9),
      (0 :> 2 @@ 1 :> 4 @@ 2 :> 3 @@ 3 :> 1 @@ 6 :> 5 @@ 19 :> 5 @@ 23 :> 2
       @@ 25 :> 1 @@ 29 :> 1 @@ 30 :> 2 @@ 35 :> 8 @@ 39 :> 8 @@ 42 :> 1
       @@ 46 :> 2 @@ 48 :> 6 @@ 49 :> 7 @@ 50 :> 1 @@ 55 :> 7 @@ 56 :> 4
       @@ 58 :> 2 @@ 59 :> 8 @@ 62 :> 1 @@ 63 :> 3 @@ 65 :> 2 @@ 67 :> 1
       @@ 70 :> 5 @@ 73 :> 1 @@ 74 :> 5 @@ 75 :> 7 @@ 76 :> 3 @@ 77 :> 6
       @@ 78 :> 8),
      (0 :> 2 @@ 1 :> 4 @@ 2 :> 5 @@ 3 :> 1 @@ 6 :> 3 @@ 9 :> 3 @@ 17 :> 1
       @@ 19 :> 1 @@ 23 :> 2 @@ 29 :> 1 @@ 30 :> 2 @@ 32 :> 8 @@ 35 :> 3
       @@ 39 :> 9 @@ 41 :> 1 @@ 46 :> 2 @@ 48 :> 6 @@ 49 :> 7 @@ 50 :> 3
       @@ 51 :> 1 @@ 55 :> 5 @@ 56 :> 2 @@ 57 :> 7 @@ 58 :> 1 @@ 59 :> 4
       @@ 63 :> 1 @@ 65 :> 4 @@ 66 :> 5 @@ 68 :> 9 @@ 70 :> 2 @@ 75 :> 8
       @@ 76 :> 2 @@ 77 :> 6 @@ 79 :> 1),
      (1 :> 4 @@ 2 :> 2 @@ 3 :> 1 @@ 6 :> 5 @@ 19 :> 7 @@ 20 :> 5 @@ 23 :> 2
       @@ 25 :> 1 @@ 29 :> 1 @@ 30 :> 2 @@ 35 :> 8 @@ 39 :> 8 @@ 42 :> 1
       @@ 46 :> 2 @@ 49 :> 1 @@ 55 :> 1 @@ 56 :> 7 @@ 58 :> 2 @@ 59 :> 8
       @@ 62 :> 4 @@ 65 :> 4 @@ 68 :> 1 @@ 70 :> 5 @@ 73 :> 5 @@ 76 :> 7
       @@ 77 :> 4 @@ 78 :> 8 @@ 80 :> 1)}}

\* s is a completion of q once its cell i is cleared
CompletesWithout(s, q, i) ==
    /\ \A j \in DOMAIN q : (j # i /\ q[j] # 0) => s[j] = q[j]
    /\ ValidFull(s, N, B)

\* q without its clue i has more than one completion
Needed(q, i) ==
    Cardinality({s \in Rivals9 \cup {sol} : CompletesWithout(s, q, i)}) > 1

\* C33: when generatePuzzle returns with more clues than its floor (it has
\* then walked through its whole permutation), removing any single clue of the
\* returned puzzle leaves more than one completion; and all along the loop
\* every cell already visited that still holds its clue has a removal that
\* leaves more than one completion, also after the removals made since.
C33_ExhaustedIsMinimal ==
    /\ (pc = "done" /\ entry = "generatePuzzle" /\ CountClues(ret.puzzle) > minCluesOf(N))
          => /\ ret.solution = sol
             /\ \A i \in DOMAIN ret.puzzle : ret.puzzle[i] # 0 => Needed(ret.puzzle, i)
    /\ (pc = "generatePuzzle" /\ entry = "generatePuzzle")
          => \A k \in 1 .. (t - 1) : puzzle[idxs[k]] # 0 => Needed(puzzle, idxs[k])

\* generatePuzzle(9, 3) has walked through its permutation and returned 35
\* clues, the last cell visited being one it cleared after it had put back
\* every clue that is left
C33_Witness ==
    /\ pc = "done" /\ entry = "generatePuzzle" /\ N = 9
    /\ t = Len(idxs)
    /\ CountClues(ret.puzzle) = 35
    /\ clues = 35
    /\ ret.puzzle[idxs[t]] = 0
    /\ \A k \in 47 .. 80 : ret.puzzle[idxs[k]] # 0

=========================================================================
